---- MODULE Spec2Model ----
(***************************************************************************)
(* Model of zmqruntime: the execution server (ZMQServer base class plus    *)
(* ExecutionServer), its control-message handlers and its queue worker     *)
(* thread.                                                                 *)
(*                                                                         *)
(* Threads of the model:                                                   *)
(*   - caller threads, each invoking ExecutionServer.start() once;         *)
(*   - the host event loop, invoking process_messages() and stop();        *)
(*   - queue worker threads created by _start_queue_worker().              *)
(* A handler invoked from process_messages() is one action.  The worker    *)
(* thread is a process whose position is worker[w].pc.                     *)
(***************************************************************************)
EXTENDS Integers, Sequences, FiniteSets, TLC

(***************************** bounds **************************************)
\* number of execute requests the model accepts
MaxExec == 2
\* number of caller threads; each calls start() once
MaxStarts == 2
\* largest number of child processes _kill_worker_processes can find
MaxChildren == 1
\* number of QueueTracker objects the registry creates
MaxTrackers == 2
\* largest number of images the trackers count as sent, all trackers together
MaxSent == 2
\* number of listener loop threads GlobalAckListener.start() creates
MaxListenerStarts == 2
\* number of callbacks register_callback adds to the default one
MaxCallbacks == 2

(************************* Python values ***********************************)
\* Python None in a string-valued field
None == "<None>"
\* Python None in start_time / end_time (time.time() is positive)
NoTime == 0
\* Python None / missing key for results_summary
NoSummary == <<>>

Truthy(v) == v \notin {None, ""}

\* dict access: k in data, data.get(k)
Has(data, k) == k \in DOMAIN data
Get(data, k) == IF Has(data, k) THEN data[k] ELSE None

(************************* messages.py *************************************)
ControlMessageType == {"ping", "execute", "status", "cancel", "shutdown", "force_shutdown"}

TerminalStatuses == {"complete", "failed", "cancelled"}
RecordStatuses == {"queued", "running"} \cup TerminalStatuses

\* str(KeyError(k))
KeyErrorStr(k) == "'" \o k \o "'"

\* from_dict reading pipeline_code with .get: a missing key is no KeyError
ExecuteRequest_from_dict_lenient(data) ==
    IF ~Has(data, "plate_id") THEN [raised |-> TRUE, key |-> "plate_id"]
    ELSE [raised |-> FALSE,
          plate_id |-> data["plate_id"],
          pipeline_code |-> Get(data, "pipeline_code"),
          config_params |-> Get(data, "config_params"),
          config_code |-> Get(data, "config_code"),
          pipeline_config_code |-> Get(data, "pipeline_config_code"),
          client_address |-> Get(data, "client_address")]

\* ExecuteRequest.from_dict: the first required key that is missing raises
\* KeyError; otherwise the request object.
ExecuteRequest_from_dict(data) ==
    IF ~Has(data, "plate_id") THEN [raised |-> TRUE, key |-> "plate_id"]
    ELSE IF ~Has(data, "pipeline_code") THEN [raised |-> TRUE, key |-> "pipeline_code"]
    ELSE [raised |-> FALSE,
          plate_id |-> data["plate_id"],
          pipeline_code |-> data["pipeline_code"],
          config_params |-> Get(data, "config_params"),
          config_code |-> Get(data, "config_code"),
          pipeline_config_code |-> Get(data, "pipeline_config_code"),
          client_address |-> Get(data, "client_address")]

ExecuteRequest_validate(req) ==
    IF ~Truthy(req.plate_id) THEN "Missing required field: plate_id"
    ELSE IF ~Truthy(req.pipeline_code) THEN "Missing required field: pipeline_code"
    ELSE IF req.config_params = None /\ req.config_code = None
         THEN "Missing config: provide either config_params or config_code"
    ELSE None

CancelRequest_from_dict(data) ==
    IF ~Has(data, "execution_id") THEN [raised |-> TRUE, key |-> "execution_id"]
    ELSE [raised |-> FALSE, execution_id |-> data["execution_id"]]

CancelRequest_validate(req) ==
    IF ~Truthy(req.execution_id) THEN "Missing execution_id" ELSE None

StatusRequest_from_dict(data) == [execution_id |-> Get(data, "execution_id")]

\* ExecuteResponse(ResponseType.ERROR, error=e).to_dict()
ErrorResponse(e) == [status |-> "error", error |-> e]

\* ExecutionServer._validate_and_parse: parsed is the outcome of
\* request_class.from_dict(msg), error the value of request.validate(),
\* which is read only when from_dict did not raise.
ValidateAndParse(parsed, error) ==
    IF parsed.raised
    THEN [ok |-> FALSE, error |-> ErrorResponse("Missing field: " \o KeyErrorStr(parsed.key))]
    ELSE IF error # None
         THEN [ok |-> FALSE, error |-> ErrorResponse(error)]
         ELSE [ok |-> TRUE, request |-> parsed]


(************************* wire payloads ***********************************)
\* uuid.uuid4() of the n-th accepted execution
Uuid(n) == "uuid-" \o ToString(n)
\* an id no uuid4() call returns
UnknownId == "uuid-x"

\* str(v) as an f-string prints it
Str(v) == IF v = None THEN "None" ELSE v

\* every dict with "type" = t and, for each optional key it carries, one of
\* the values vals[k]
Dicts(t, vals) ==
    UNION { { [k \in D \cup {"type"} |-> IF k = "type" THEN t ELSE f[k]] :
              f \in { g \in [D -> UNION { vals[k] : k \in DOMAIN vals }] :
                      \A k \in D : g[k] \in vals[k] } } :
            D \in SUBSET DOMAIN vals }

CancelMsgs ==
    Dicts("cancel", [execution_id |-> {"", UnknownId} \cup { Uuid(n) : n \in 1..MaxExec }])
StatusMsgs ==
    Dicts("status", [execution_id |-> {UnknownId} \cup { Uuid(n) : n \in 1..MaxExec }])
OtherMsgs ==
    { [type |-> "ping"], [type |-> "shutdown"], [type |-> "force_shutdown"],
      [type |-> "bogus"], [plate_id |-> "P1"] }

\* what control_socket.recv() can return: bytes pickle.loads rejects, a
\* pickled object that is no mapping, or a pickled dict
Undecodable == [kind |-> "undecodable"]
NonMapping == [kind |-> "nonmapping"]
Mapping(d) == [kind |-> "mapping", data |-> d]

\* the message of scenario E2
E2Msg == [type |-> "execute", plate_id |-> ""]

\* what execute_task can do: return a dict of wells, return something that
\* is no dict, raise BrokenProcessPool, raise another exception
TaskOutcomes ==
    { [kind |-> "return", isdict |-> TRUE, wells |-> <<"A1", "A2">>],
      [kind |-> "return", isdict |-> FALSE, wells |-> <<>>],
      [kind |-> "raise", broken_pool |-> TRUE, text |-> "pool broken"],
      [kind |-> "raise", broken_pool |-> FALSE, text |-> "boom"] }

(***************************** state ***************************************)
VARIABLES
    running,             \* ZMQServer._running
    ready,               \* ZMQServer._ready
    control_socket,      \* TRUE when the REP socket is bound (not None)
    awaiting_send,       \* REP socket state: a request was received and not answered
    server_start_time,   \* ExecutionServer.start_time
    active_executions,   \* execution_id -> record
    execution_queue,     \* FIFO of execution ids (each entry refers to its record)
    queue_worker_thread, \* id of the thread object stored, 0 for None
    worker,              \* worker thread w -> [pc, item]
    caller,              \* caller thread c -> position inside start()
    clock,               \* the value the next time.time() returns
    request,             \* the payload received, when the last step was a control turn
    response,            \* the reply sent, when the last step was a control turn
    task_outcome,        \* how execute_task ended, when the last step was its end
    execute_log,         \* execution ids in the order execute_task was invoked
    cancelled_queued,    \* ids a handler cancelled while their status was queued
    trackers,            \* QueueTracker objects in creation order: object id -> fields
    registry,            \* GlobalQueueTrackerRegistry._trackers: viewer port -> object id
    call,                \* the tracker or registry call of the last step and what it returned
    listener_running,    \* GlobalAckListener._running
    listener_thread,     \* GlobalAckListener._thread: id of the thread stored, 0 for None
    listener_settings,   \* GlobalAckListener._port, _host, _transport_mode, _config
    callbacks,           \* GlobalAckListener._callbacks
    loop,                \* listener thread t -> position and locals of _listener_loop
    client,              \* the fields of one ZMQClient object
    connection,          \* how the client's connection was made and to which server
    processes,           \* the processes _spawn_server_process created, in order
    port_state,          \* the client's port: whether in use, and the server behind it
    client_call,         \* the connect() or disconnect() of the last step and what it did
    wait,                \* position and locals of one wait_for_completion call
    progress_queue,      \* ExecutionServer.progress_queue
    published,           \* the strings sent on the data socket, in order
    enqueued,            \* the entries put on progress_queue, in order
    event_loop,          \* position of the host event loop inside process_messages
    viewer,              \* one StreamingVisualizerServer: ack_socket and what its last handler did
    platform_system,     \* what platform.system() returns in this process
    ipc_files,           \* the socket files that exist under the home directory
    transport_call,      \* the transport function called by the last step and its outcome
    endpoints,           \* the ZMQServer and ZMQClient objects constructed, in order
    codec,               \* the message of the last conversion, its dict and what from_dict gave
    batch                \* per tracker object: ids registered in this batch and in earlier ones

serverVars == <<running, ready, control_socket, awaiting_send, server_start_time,
                active_executions, execution_queue, queue_worker_thread, worker,
                caller, clock, request, response, task_outcome,
                execute_log, cancelled_queued>>

trackerVars == <<trackers, registry, call>>

listenerVars == <<listener_running, listener_thread, listener_settings, callbacks, loop>>

clientVars == <<client, connection, processes, port_state, client_call>>

waitVars == <<wait>>

progressVars == <<progress_queue, published, enqueued, event_loop>>

streamVars == <<viewer>>

transportVars == <<platform_system, ipc_files, transport_call>>

endpointVars == <<endpoints>>

codecVars == <<codec>>

batchVars == <<batch>>

\* the variables of the streaming server, the transport functions, the port
\* arithmetic, the codec and the batch bookkeeping
kitVars == <<streamVars, transportVars, endpointVars, codecVars, batchVars>>

vars == <<serverVars, trackerVars, listenerVars, clientVars, waitVars, progressVars,
          kitVars>>

Callers == 1..MaxStarts
Workers == 1..MaxStarts

\* nothing received yet / nothing sent in the turn
NoRequest == [kind |-> "<no request>"]
NoReply == [type |-> "<no reply>"]
\* the last step was no end of execute_task
NoOutcome == [kind |-> "<no outcome>"]
\* the last step was no tracker or registry call
NoCall == [op |-> "<no call>"]

ListenerThreads == 1..MaxListenerStarts
\* int | None fields holding None
NoPort == 0
\* no ack received by the loop
NoAck == [image_id |-> None, viewer_port |-> NoPort, viewer_type |-> None]
\* a listener thread that was not started
NotStarted == [pc |-> "unborn", url |-> None, ack |-> NoAck, todo |-> <<>>,
               done |-> <<>>, target |-> 0, marked |-> 0]

\* a ZMQClient that was not constructed
NoClient == [made |-> FALSE, persistent |-> TRUE, connected |-> FALSE,
             connected_to_existing |-> FALSE, server_process |-> 0, data_socket |-> FALSE]
\* the client has no connection
NoConnection == [how |-> "none", server |-> 0]
\* nothing listens on the port and no socket file exists
PortFree == [in_use |-> FALSE, serving |-> FALSE, owner |-> 0, ready |-> FALSE]
\* the last step was no connect() or disconnect()
NoClientCall == [op |-> "<no call>"]
\* wait_for_completion has returned nothing
NoResult == [status |-> None, execution_id |-> None, message |-> None, results |-> <<>>]
\* wait_for_completion was not called; streak counts the status polls that
\* failed since the last one that was answered, reported is what the last
\* poll reported
NotWaiting == [pc |-> "idle", execution_id |-> None, max_consecutive_errors |-> 0,
               consecutive_errors |-> 0, poll_count |-> 0, result |-> NoResult,
               streak |-> 0, reported |-> None]

\* no StreamingVisualizerServer was constructed
NoViewer == [made |-> FALSE, ack_socket |-> FALSE, log |-> <<>>, raised |-> FALSE]

\* the last step called no transport function
NoTransportCall == [op |-> "<no call>"]

\* the last step converted no message
NoConversion == [op |-> "<no conversion>"]

Init ==
    /\ running = FALSE
    /\ ready = FALSE
    /\ control_socket = FALSE
    /\ awaiting_send = FALSE
    /\ server_start_time = NoTime
    /\ active_executions = <<>>
    /\ execution_queue = <<>>
    /\ queue_worker_thread = 0
    /\ worker = [w \in Workers |-> [pc |-> "unborn", item |-> None]]
    /\ caller = [c \in Callers |-> "idle"]
    /\ clock = 1
    /\ request = NoRequest
    /\ response = NoReply
    /\ task_outcome = NoOutcome
    /\ execute_log = <<>>
    /\ cancelled_queued = {}
    /\ trackers = <<>>
    /\ registry = <<>>
    /\ call = NoCall
    /\ listener_running = FALSE
    /\ listener_thread = 0
    /\ listener_settings = [port |-> NoPort, host |-> "*", transport_mode |-> None,
                            config |-> None]
    /\ callbacks = <<"_mark_processed">>
    /\ loop = [t \in ListenerThreads |-> NotStarted]
    /\ client = NoClient
    /\ connection = NoConnection
    /\ processes = <<>>
    /\ port_state = PortFree
    /\ client_call = NoClientCall
    /\ wait = NotWaiting
    /\ progress_queue = <<>>
    /\ published = <<>>
    /\ enqueued = <<>>
    /\ event_loop = "idle"
    /\ viewer = NoViewer
    /\ platform_system = "Linux"
    /\ ipc_files = {}
    /\ transport_call = NoTransportCall
    /\ endpoints = <<>>
    /\ codec = NoConversion
    /\ batch = <<>>


\* a step that is no control turn
NoTurn == request' = NoRequest /\ response' = NoReply /\ task_outcome' = NoOutcome

(******************* ZMQServer / ExecutionServer lifecycle ******************)
\* threading.Thread.is_alive()
IsAlive(w) == worker[w].pc \notin {"unborn", "dead"}

\* ExecutionServer.start(), first part: ZMQServer.start() under self._lock
\* (returns at once when already running), then start_time is set once.
\* A bind on an endpoint the process still holds (after request_shutdown)
\* either fails with ZMQError, which ends start(), or replaces the sockets.
StartBase(c) ==
    /\ caller[c] = "idle"
    /\ \/ /\ running \/ ~control_socket
          /\ running' = TRUE
          /\ control_socket' = TRUE
          /\ awaiting_send' = (running /\ awaiting_send)
          /\ server_start_time' = IF server_start_time # NoTime THEN server_start_time ELSE clock
          /\ clock' = IF server_start_time # NoTime THEN clock ELSE clock + 1
          /\ caller' = [caller EXCEPT ![c] = "sqw"]
       \/ /\ ~running /\ control_socket
          /\ \/ /\ running' = TRUE
                /\ awaiting_send' = FALSE
                /\ caller' = [caller EXCEPT ![c] = "sqw"]
             \/ /\ UNCHANGED <<running, awaiting_send>>
                /\ caller' = [caller EXCEPT ![c] = "done"]
          /\ UNCHANGED <<control_socket, server_start_time, clock>>
    /\ NoTurn
    /\ UNCHANGED <<ready, active_executions, execution_queue, queue_worker_thread,
                   worker, execute_log, cancelled_queued>>

\* _start_queue_worker, the test: thread is None or not thread.is_alive()
StartQueueWorkerCheck(c) ==
    /\ caller[c] = "sqw"
    /\ caller' = [caller EXCEPT ![c] =
                    IF queue_worker_thread = 0 \/ ~IsAlive(queue_worker_thread)
                    THEN "create" ELSE "done"]
    /\ NoTurn
    /\ UNCHANGED <<running, ready, control_socket, awaiting_send, server_start_time,
                   active_executions, execution_queue, queue_worker_thread, worker,
                   clock, execute_log, cancelled_queued>>

\* _start_queue_worker, the body: a new thread is stored and started
StartQueueWorkerCreate(c) ==
    /\ caller[c] = "create"
    /\ LET w == CHOOSE x \in Workers :
                  /\ worker[x].pc = "unborn"
                  /\ \A y \in Workers : worker[y].pc = "unborn" => x <= y
       IN /\ queue_worker_thread' = w
          /\ worker' = [worker EXCEPT ![w] = [pc |-> "loop", item |-> None]]
    /\ caller' = [caller EXCEPT ![c] = "done"]
    /\ NoTurn
    /\ UNCHANGED <<running, ready, control_socket, awaiting_send, server_start_time,
                   active_executions, execution_queue, clock, execute_log,
                   cancelled_queued>>

\* ZMQServer.stop() on a running server
Stop ==
    /\ running
    /\ running' = FALSE
    /\ control_socket' = FALSE
    /\ awaiting_send' = FALSE
    /\ NoTurn
    /\ UNCHANGED <<ready, server_start_time, active_executions, execution_queue,
                   queue_worker_thread, worker, caller, clock, execute_log,
                   cancelled_queued>>

(*************************** queue worker **********************************)
workerFrame == <<running, ready, control_socket, awaiting_send, server_start_time,
                 queue_worker_thread, caller, cancelled_queued>>

SetPc(w, pc) == [worker EXCEPT ![w].pc = pc]

\* while self._running:
WorkerLoop(w) ==
    /\ worker[w].pc = "loop"
    /\ worker' = SetPc(w, IF running THEN "get" ELSE "drain")
    /\ UNCHANGED <<active_executions, execution_queue, clock, execute_log>>
    /\ NoTurn
    /\ UNCHANGED workerFrame

\* execution_queue.get(timeout=1.0); queue.Empty continues the loop
WorkerGet(w) ==
    /\ worker[w].pc = "get"
    /\ IF execution_queue = <<>>
       THEN /\ worker' = SetPc(w, "loop")
            /\ UNCHANGED execution_queue
       ELSE /\ worker' = [worker EXCEPT ![w] = [pc |-> "check_running", item |-> Head(execution_queue)]]
            /\ execution_queue' = Tail(execution_queue)
    /\ UNCHANGED <<active_executions, clock, execute_log>>
    /\ NoTurn
    /\ UNCHANGED workerFrame

\* if not self._running: the record is marked cancelled and the loop ends
WorkerCheckRunning(w) ==
    /\ worker[w].pc = "check_running"
    /\ IF ~running
       THEN /\ active_executions' =
                  [active_executions EXCEPT ![worker[w].item].status = "cancelled"]
            /\ worker' = [worker EXCEPT ![w] = [pc |-> "drain", item |-> None]]
       ELSE /\ worker' = SetPc(w, "check_cancelled")
            /\ UNCHANGED active_executions
    /\ UNCHANGED <<execution_queue, clock, execute_log>>
    /\ NoTurn
    /\ UNCHANGED workerFrame

\* if record[status] == cancelled: skipped
WorkerCheckCancelled(w) ==
    /\ worker[w].pc = "check_cancelled"
    /\ worker' = IF active_executions[worker[w].item].status = "cancelled"
                 THEN [worker EXCEPT ![w] = [pc |-> "loop", item |-> None]]
                 ELSE SetPc(w, "run")
    /\ UNCHANGED <<active_executions, execution_queue, clock, execute_log>>
    /\ NoTurn
    /\ UNCHANGED workerFrame

\* _run_execution up to the call of execute_task
RunExecutionStart(w) ==
    /\ worker[w].pc = "run"
    /\ active_executions' =
          [active_executions EXCEPT ![worker[w].item].status = "running",
                                    ![worker[w].item].start_time = clock]
    /\ clock' = clock + 1
    /\ execute_log' = Append(execute_log, worker[w].item)
    /\ worker' = SetPc(w, "task")
    /\ UNCHANGED execution_queue
    /\ NoTurn
    /\ UNCHANGED workerFrame

\* the record after execute_task ended with outcome o
\* _run_execution leaving a cancelled record alone whatever was raised
RunExecutionResult_keeps_cancelled(r, o, now) ==
    IF o.kind = "return"
    THEN [r EXCEPT !.status = "complete", !.end_time = now,
                   !.results_summary = <<IF o.isdict THEN Len(o.wells) ELSE 0,
                                         IF o.isdict THEN o.wells ELSE <<>> >>]
    ELSE IF r.status = "cancelled"
         THEN r
         ELSE [r EXCEPT !.status = "failed", !.end_time = now, !.error = o.text]

RunExecutionResult(r, o, now) ==
    IF o.kind = "return"
    THEN [r EXCEPT !.status = "complete", !.end_time = now,
                   !.results_summary = <<IF o.isdict THEN Len(o.wells) ELSE 0,
                                         IF o.isdict THEN o.wells ELSE <<>> >>]
    ELSE IF o.broken_pool /\ r.status = "cancelled"
         THEN r
         ELSE [r EXCEPT !.status = "failed", !.end_time = now, !.error = o.text]

\* execute_task returns or raises; _run_execution's bookkeeping, then
\* task_done() and the next iteration
RunExecutionEnd(w) ==
    /\ worker[w].pc = "task"
    /\ \E o \in TaskOutcomes :
          \E r2 \in {RunExecutionResult(active_executions[worker[w].item], o, clock)} :
             /\ active_executions' = [active_executions EXCEPT ![worker[w].item] = r2]
             /\ clock' = IF r2 = active_executions[worker[w].item] THEN clock ELSE clock + 1
             /\ task_outcome' = o
    /\ worker' = [worker EXCEPT ![w] = [pc |-> "loop", item |-> None]]
    /\ UNCHANGED <<execution_queue, execute_log>>
    /\ request' = NoRequest
    /\ response' = NoReply
    /\ UNCHANGED workerFrame

\* finally: every entry left in the queue is marked cancelled with end_time
WorkerDrain(w) ==
    /\ worker[w].pc = "drain"
    /\ IF execution_queue = <<>>
       THEN /\ worker' = SetPc(w, "dead")
            /\ UNCHANGED <<active_executions, execution_queue, clock>>
       ELSE /\ active_executions' =
                  [active_executions EXCEPT ![Head(execution_queue)].status = "cancelled",
                                            ![Head(execution_queue)].end_time = clock]
            /\ clock' = clock + 1
            /\ execution_queue' = Tail(execution_queue)
            /\ UNCHANGED worker
    /\ UNCHANGED execute_log
    /\ NoTurn
    /\ UNCHANGED workerFrame


(************************* control handlers ********************************)
\* ZMQConfig defaults
DefaultPort == 7777
ControlPortOffset == 1000

\* insertion order of active_executions: the n-th accepted id is Uuid(n)
Ids(ae) == [n \in 1..Cardinality(DOMAIN ae) |-> Uuid(n)]

IsActive(r) == r.status \in {"running", "queued"}

\* the number of records _cancel_all_executions rewrites before it reaches
\* the n-th one
ActiveBefore(ae, n) == Cardinality({ m \in 1..(n - 1) : IsActive(ae[Uuid(m)]) })

\* _cancel_all_executions without the status test: every record is rewritten
CancelAllExecutions_any_status(ae, now) ==
    [id \in DOMAIN ae |-> [ae[id] EXCEPT !.status = "cancelled", !.end_time = now]]

\* _cancel_all_executions: each running or queued record becomes cancelled
\* with its own time.time() reading
CancelAllExecutions(ae, now) ==
    [id \in DOMAIN ae |->
        IF IsActive(ae[id])
        THEN [ae[id] EXCEPT !.status = "cancelled",
                            !.end_time = now + ActiveBefore(ae, CHOOSE n \in 1..Cardinality(DOMAIN ae) : Uuid(n) = id)]
        ELSE ae[id]]

ActiveCount(ae) == Cardinality({ id \in DOMAIN ae : IsActive(ae[id]) })

\* what a handler returns and leaves behind
Outcome(resp, ae, q, run, clk) ==
    [response |-> resp, active_executions |-> ae, execution_queue |-> q,
     running |-> run, clock |-> clk]

Unchanged(resp) == Outcome(resp, active_executions, execution_queue, running, clock)

\* _handle_execute taking the id from the queue length instead of uuid4()
HandleExecute_queue_id(msg) ==
    LET vp == ValidateAndParse(ExecuteRequest_from_dict(msg),
                              ExecuteRequest_validate(ExecuteRequest_from_dict(msg)))
        execution_id == Uuid(Len(execution_queue) + 1)
        record == [execution_id |-> execution_id,
                   plate_id |-> vp.request.plate_id,
                   client_address |-> vp.request.client_address,
                   status |-> "queued",
                   start_time |-> NoTime,
                   end_time |-> NoTime,
                   error |-> None,
                   results_summary |-> NoSummary]
        queue == Append(execution_queue, execution_id)
    IN IF ~vp.ok THEN Unchanged(vp.error)
       ELSE Outcome([status |-> "accepted",
                     execution_id |-> execution_id,
                     message |-> "Execution queued (position: " \o ToString(Len(queue)) \o ")"],
                    [id \in DOMAIN active_executions \cup {execution_id} |->
                        IF id = execution_id THEN record ELSE active_executions[id]],
                    queue, running, clock)

\* ExecutionServer._handle_execute
HandleExecute(msg) ==
    LET vp == ValidateAndParse(ExecuteRequest_from_dict(msg),
                              ExecuteRequest_validate(ExecuteRequest_from_dict(msg)))
        execution_id == Uuid(Cardinality(DOMAIN active_executions) + 1)
        record == [execution_id |-> execution_id,
                   plate_id |-> vp.request.plate_id,
                   client_address |-> vp.request.client_address,
                   status |-> "queued",
                   start_time |-> NoTime,
                   end_time |-> NoTime,
                   error |-> None,
                   results_summary |-> NoSummary]
        queue == Append(execution_queue, execution_id)
    IN IF ~vp.ok THEN Unchanged(vp.error)
       ELSE Outcome([status |-> "accepted",
                     execution_id |-> execution_id,
                     message |-> "Execution queued (position: " \o ToString(Len(queue)) \o ")"],
                    [id \in DOMAIN active_executions \cup {execution_id} |->
                        IF id = execution_id THEN record ELSE active_executions[id]],
                    queue, running, clock)

\* _handle_status answering for queued and running records only
HandleStatus_active_only(msg) ==
    LET execution_id == StatusRequest_from_dict(msg).execution_id
        r == active_executions[execution_id]
    IN IF Truthy(execution_id)
       THEN IF execution_id \notin DOMAIN active_executions \/ ~IsActive(r)
            THEN Unchanged(ErrorResponse("Execution " \o execution_id \o " not found"))
            ELSE Unchanged([status |-> "ok",
                            execution |-> [execution_id |-> r.execution_id,
                                           plate_id |-> r.plate_id,
                                           status |-> r.status,
                                           start_time |-> r.start_time,
                                           end_time |-> r.end_time,
                                           error |-> r.error,
                                           results_summary |-> r.results_summary]])
       ELSE Unchanged([status |-> "ok",
                       active_executions |-> Cardinality(DOMAIN active_executions),
                       uptime |-> IF server_start_time # NoTime THEN clock - server_start_time ELSE 0,
                       executions |-> Ids(active_executions)])

\* ExecutionServer._handle_status
HandleStatus(msg) ==
    LET execution_id == StatusRequest_from_dict(msg).execution_id
        r == active_executions[execution_id]
    IN IF Truthy(execution_id)
       THEN IF execution_id \notin DOMAIN active_executions
            THEN Unchanged(ErrorResponse("Execution " \o execution_id \o " not found"))
            ELSE Unchanged([status |-> "ok",
                            execution |-> [execution_id |-> r.execution_id,
                                           plate_id |-> r.plate_id,
                                           status |-> r.status,
                                           start_time |-> r.start_time,
                                           end_time |-> r.end_time,
                                           error |-> r.error,
                                           results_summary |-> r.results_summary]])
       ELSE Unchanged([status |-> "ok",
                       active_executions |-> Cardinality(DOMAIN active_executions),
                       uptime |-> IF server_start_time # NoTime THEN clock - server_start_time ELSE 0,
                       executions |-> Ids(active_executions)])

\* _handle_cancel cancelling before it looks the id up
HandleCancel_unchecked(msg, killed) ==
    LET vp == ValidateAndParse(CancelRequest_from_dict(msg),
                              CancelRequest_validate(CancelRequest_from_dict(msg)))
    IN IF ~vp.ok THEN Unchanged(vp.error)
       ELSE IF vp.request.execution_id \notin DOMAIN active_executions
       THEN Outcome(ErrorResponse("Execution " \o vp.request.execution_id \o " not found"),
                    CancelAllExecutions(active_executions, clock),
                    execution_queue, running, clock + ActiveCount(active_executions))
       ELSE Outcome([status |-> "ok",
                     message |-> "Cancelled - killed " \o ToString(killed) \o " workers",
                     workers_killed |-> killed],
                    CancelAllExecutions(active_executions, clock),
                    execution_queue, running, clock + ActiveCount(active_executions))

\* ExecutionServer._handle_cancel; killed is what _kill_worker_processes returns
HandleCancel(msg, killed) ==
    LET vp == ValidateAndParse(CancelRequest_from_dict(msg),
                              CancelRequest_validate(CancelRequest_from_dict(msg)))
    IN IF ~vp.ok THEN Unchanged(vp.error)
       ELSE IF vp.request.execution_id \notin DOMAIN active_executions
       THEN Unchanged(ErrorResponse("Execution " \o vp.request.execution_id \o " not found"))
       ELSE Outcome([status |-> "ok",
                     message |-> "Cancelled - killed " \o ToString(killed) \o " workers",
                     workers_killed |-> killed],
                    CancelAllExecutions(active_executions, clock),
                    execution_queue, running, clock + ActiveCount(active_executions))

\* _shutdown_workers calling request_shutdown() whatever force is
ShutdownWorkers_always_stops(force, killed) ==
    Outcome([type |-> "shutdown_ack",
             status |-> "success",
             message |-> "Workers killed (" \o ToString(killed) \o "), server "
                         \o (IF force THEN "shutting down" ELSE "alive")],
            CancelAllExecutions(active_executions, clock),
            execution_queue,
            FALSE,
            clock + ActiveCount(active_executions))

\* ExecutionServer._shutdown_workers; request_shutdown() clears _running
ShutdownWorkers(force, killed) ==
    Outcome([type |-> "shutdown_ack",
             status |-> "success",
             message |-> "Workers killed (" \o ToString(killed) \o "), server "
                         \o (IF force THEN "shutting down" ELSE "alive")],
            CancelAllExecutions(active_executions, clock),
            execution_queue,
            IF force THEN FALSE ELSE running,
            clock + ActiveCount(active_executions))

\* ExecutionServer.handle_control_message: ControlMessageType(type).dispatch;
\* a type outside the enum raises ValueError; "ping" has no handler in the
\* dispatch table but never reaches this method
HandleControlMessage(msg, killed) ==
    LET type == Get(msg, "type")
    IN CASE type = "execute" -> HandleExecute(msg)
         [] type = "status" -> HandleStatus(msg)
         [] type = "cancel" -> HandleCancel(msg, killed)
         [] type = "shutdown" -> ShutdownWorkers(FALSE, killed)
         [] type = "force_shutdown" -> ShutdownWorkers(TRUE, killed)
         [] OTHER -> Unchanged(ErrorResponse("Unknown message type: " \o Str(type)))

\* ExecutionServer._create_pong_response (worker process details left out)
CreatePongResponse(rdy) ==
    LET ids == Ids(active_executions)
        runningIds == SelectSeq(ids, LAMBDA id : active_executions[id].status = "running")
    IN [type |-> "pong",
        port |-> DefaultPort,
        control_port |-> DefaultPort + ControlPortOffset,
        ready |-> rdy,
        server |-> "ExecutionServer",
        active_executions |-> ActiveCount(active_executions),
        running_executions |->
            [i \in 1..Len(runningIds) |->
                [execution_id |-> runningIds[i],
                 plate_id |-> active_executions[runningIds[i]].plate_id,
                 start_time |-> active_executions[runningIds[i]].start_time,
                 elapsed |-> IF active_executions[runningIds[i]].start_time # NoTime
                             THEN clock - active_executions[runningIds[i]].start_time
                             ELSE 0]],
        uptime |-> IF server_start_time # NoTime THEN clock - server_start_time ELSE 0]

\* the ids handlers cancel while their status is queued
NewlyCancelledQueued(ae2) ==
    { id \in DOMAIN active_executions :
        active_executions[id].status = "queued" /\ ae2[id].status = "cancelled" }

\* a ping that leaves _ready as it was
ReadyAfterPing_unset(rdy) == rdy

\* _ready after the ping branch of process_messages
ReadyAfterPing(rdy) == IF ~rdy THEN TRUE ELSE rdy

\* ZMQServer.process_messages: one REP turn on a pending request.  The
\* pickle.loads of the received bytes is outside every try block that
\* sends; an object without .get raises inside the handler try block.
ProcessMessages(payload, killed) ==
    /\ running
    /\ ~awaiting_send
    /\ request' = payload
    /\ IF payload.kind = "undecodable"
       THEN /\ awaiting_send' = TRUE
            /\ response' = NoReply
            /\ UNCHANGED <<ready, active_executions, execution_queue, running, clock,
                           cancelled_queued>>
       ELSE IF payload.kind = "nonmapping"
       THEN /\ response' = [status |-> "error",
                            message |-> "object has no attribute 'get'",
                            type |-> "error"]
            /\ UNCHANGED <<awaiting_send, ready, active_executions, execution_queue,
                           running, clock, cancelled_queued>>
       ELSE IF Get(payload.data, "type") = "ping"
       THEN /\ ready' = ReadyAfterPing(ready)
            /\ response' = CreatePongResponse(ready')
            /\ UNCHANGED <<awaiting_send, active_executions, execution_queue, running,
                           clock, cancelled_queued>>
       ELSE \E out \in {HandleControlMessage(payload.data, killed)} :
               /\ Cardinality(DOMAIN out.active_executions) <= MaxExec
               /\ response' = out.response
               /\ active_executions' = out.active_executions
               /\ execution_queue' = out.execution_queue
               /\ running' = out.running
               /\ clock' = out.clock
               /\ cancelled_queued' =
                     cancelled_queued \cup NewlyCancelledQueued(out.active_executions)
               /\ UNCHANGED <<awaiting_send, ready>>
    /\ task_outcome' = NoOutcome
    /\ UNCHANGED <<control_socket, server_start_time, queue_worker_thread, worker,
                   caller, execute_log>>

(*************************** specification *********************************)
\* the requests of the concurrent specification: one of each kind that
\* changes the server, and the payload that cannot be decoded
CorePayloads ==
    { Undecodable,
      Mapping([type |-> "execute", plate_id |-> "P1", pipeline_code |-> "noop",
               config_params |-> "{x: 1}"]),
      Mapping([type |-> "cancel", execution_id |-> Uuid(1)]),
      Mapping([type |-> "force_shutdown"]) }

\* the requests of the control specification: for every handler, one request
\* per path through it
ControlExecuteMsgs ==
    { [type |-> "execute", plate_id |-> "P1", pipeline_code |-> "noop", config_params |-> "{x: 1}"],
      [type |-> "execute", plate_id |-> "P1", pipeline_code |-> "noop", config_code |-> "cfg"],
      [type |-> "execute", plate_id |-> "P1", pipeline_code |-> "noop"],
      [type |-> "execute", plate_id |-> "P1", pipeline_code |-> "", config_params |-> "{x: 1}"],
      [type |-> "execute", plate_id |-> "P1", config_params |-> "{x: 1}"],
      [type |-> "execute", plate_id |-> "", pipeline_code |-> "noop", config_params |-> "{x: 1}"],
      [type |-> "execute", plate_id |-> "", pipeline_code |-> ""],
      [type |-> "execute", pipeline_code |-> "noop", config_params |-> "{x: 1}"],
      E2Msg }
ControlPayloads ==
    {Undecodable, NonMapping} \cup
    { Mapping(d) : d \in ControlExecuteMsgs \cup CancelMsgs \cup StatusMsgs \cup OtherMsgs }

\* the handlers that call _kill_worker_processes
Kills(payload) ==
    /\ payload.kind = "mapping"
    /\ Get(payload.data, "type") \in {"cancel", "shutdown", "force_shutdown"}

\* a worker thread is blocked in execution_queue.get, is inside execute_task,
\* or does not run
Blocked(w) == worker[w].pc \in {"unborn", "get", "task", "dead"}

\* whether the host threads (callers of start and stop, the event loop) may
\* take a step
HostMayRun(preempt) == preempt \/ \A w \in Workers : Blocked(w)

\* the steps of the server with the given caller threads and the given
\* requests arriving on the control socket; with preempt the host threads
\* run at any moment, without it only while every worker thread is blocked
ServerNext(callers, payloads, preempt) ==
    \/ \E c \in callers : HostMayRun(preempt) /\ StartBase(c) /\ UNCHANGED <<trackerVars, listenerVars, clientVars, waitVars, progressVars, kitVars>>
    \/ \E c \in callers : HostMayRun(preempt) /\ StartQueueWorkerCheck(c) /\ UNCHANGED <<trackerVars, listenerVars, clientVars, waitVars, progressVars, kitVars>>
    \/ \E c \in callers : HostMayRun(preempt) /\ StartQueueWorkerCreate(c) /\ UNCHANGED <<trackerVars, listenerVars, clientVars, waitVars, progressVars, kitVars>>
    \/ HostMayRun(preempt) /\ Stop /\ UNCHANGED <<trackerVars, listenerVars, clientVars, waitVars, progressVars, kitVars>>
    \/ \E p \in payloads :
          \E k \in IF Kills(p) THEN 0..MaxChildren ELSE {0} :
             HostMayRun(preempt) /\ ProcessMessages(p, k) /\ UNCHANGED <<trackerVars, listenerVars, clientVars, waitVars, progressVars, kitVars>>
    \/ \E w \in Workers : WorkerLoop(w) /\ UNCHANGED <<trackerVars, listenerVars, clientVars, waitVars, progressVars, kitVars>>
    \/ \E w \in Workers : WorkerGet(w) /\ UNCHANGED <<trackerVars, listenerVars, clientVars, waitVars, progressVars, kitVars>>
    \/ \E w \in Workers : WorkerCheckRunning(w) /\ UNCHANGED <<trackerVars, listenerVars, clientVars, waitVars, progressVars, kitVars>>
    \/ \E w \in Workers : WorkerCheckCancelled(w) /\ UNCHANGED <<trackerVars, listenerVars, clientVars, waitVars, progressVars, kitVars>>
    \/ \E w \in Workers : RunExecutionStart(w) /\ UNCHANGED <<trackerVars, listenerVars, clientVars, waitVars, progressVars, kitVars>>
    \/ \E w \in Workers : RunExecutionEnd(w) /\ UNCHANGED <<trackerVars, listenerVars, clientVars, waitVars, progressVars, kitVars>>
    \/ \E w \in Workers : WorkerDrain(w) /\ UNCHANGED <<trackerVars, listenerVars, clientVars, waitVars, progressVars, kitVars>>

\* every caller thread, the requests that change the server, every interleaving
Next == ServerNext(Callers, CorePayloads, TRUE)
Spec == Init /\ [][Next]_vars

\* the steps of worker thread w
WorkerStep(w) ==
    \/ WorkerLoop(w)
    \/ WorkerGet(w)
    \/ WorkerCheckRunning(w)
    \/ WorkerCheckCancelled(w)
    \/ RunExecutionStart(w)
    \/ RunExecutionEnd(w)
    \/ WorkerDrain(w)

\* the steps of caller thread c inside _start_queue_worker
CallerStep(c) == StartQueueWorkerCheck(c) \/ StartQueueWorkerCreate(c)

\* the concurrent specification with every thread that is inside a call
\* scheduled again and every execute_task call ending
SpecFair ==
    /\ Spec
    /\ \A w \in Workers : WF_vars(WorkerStep(w) /\ UNCHANGED <<trackerVars, listenerVars, clientVars, waitVars, progressVars, kitVars>>)
    /\ \A c \in Callers : WF_vars(CallerStep(c) /\ UNCHANGED <<trackerVars, listenerVars, clientVars, waitVars, progressVars, kitVars>>)

\* one caller thread, every kind of request, host steps between the worker's
\* blocking points
NextControl == ServerNext({1}, ControlPayloads, FALSE)
SpecControl == Init /\ [][NextControl]_vars


(************************** queue tracker ***********************************)
\* the viewers of the model, the kind of each, and the images
ViewerPorts == {5555, 5556}
ViewerTypeOf(viewer_port) == IF viewer_port = 5555 THEN "napari" ELSE "fiji"
ImageIds == {"img-1", "img-2"}

\* registry.get(port) finding nothing
NoTracker == 0

\* QueueTracker.__init__.  _pending is kept as its key set: the timestamps
\* are read by has_stuck_images and get_stuck_images only.
NewTracker(viewer_port, viewer_type) ==
    [viewer_port |-> viewer_port, viewer_type |-> viewer_type,
     pending |-> {}, processed |-> {}, total_sent |-> 0, total_processed |-> 0]

\* QueueTracker.register_sent
RegisterSent(t, image_id) ==
    [t EXCEPT !.pending = @ \cup {image_id}, !.total_sent = @ + 1]

\* mark_processed counting an unregistered image as processed only
MarkProcessed_not_counted_sent(t, image_id) ==
    IF image_id \in t.pending
    THEN [t EXCEPT !.pending = @ \ {image_id}, !.processed = @ \cup {image_id},
                   !.total_processed = @ + 1]
    ELSE IF image_id \notin t.processed
         THEN [t EXCEPT !.processed = @ \cup {image_id}, !.total_processed = @ + 1]
         ELSE t

\* mark_processed counting every ack, also of an image already processed
MarkProcessed_counts_repeats(t, image_id) ==
    IF image_id \in t.pending
    THEN [t EXCEPT !.pending = @ \ {image_id}, !.processed = @ \cup {image_id},
                   !.total_processed = @ + 1]
    ELSE [t EXCEPT !.processed = @ \cup {image_id}, !.total_processed = @ + 1,
                   !.total_sent = @ + 1]

\* QueueTracker.mark_processed
MarkProcessed(t, image_id) ==
    IF image_id \in t.pending
    THEN [t EXCEPT !.pending = @ \ {image_id}, !.processed = @ \cup {image_id},
                   !.total_processed = @ + 1]
    ELSE IF image_id \notin t.processed
         THEN [t EXCEPT !.processed = @ \cup {image_id}, !.total_processed = @ + 1,
                        !.total_sent = @ + 1]
         ELSE t

\* QueueTracker.get_progress
GetProgress(t) == <<t.total_processed, t.total_sent>>

\* QueueTracker.get_pending_count
GetPendingCount(t) == Cardinality(t.pending)

\* QueueTracker.clear
Clear(t) ==
    [t EXCEPT !.pending = {}, !.processed = {}, !.total_sent = 0, !.total_processed = 0]

\* QueueTracker.reset_for_new_batch
ResetForNewBatch(t) ==
    [t EXCEPT !.pending = {}, !.processed = {}, !.total_sent = 0, !.total_processed = 0]

\* the tracker objects created so far; a reference stays usable after the
\* registry dropped it
TrackerObjects == 1..Len(trackers)

RECURSIVE SentUpTo(_, _)
\* total_sent of the first n tracker objects of ts, added up
SentUpTo(ts, n) == IF n = 0 THEN 0 ELSE ts[n].total_sent + SentUpTo(ts, n - 1)

\* the label of a call, for the steps whose caller is watched
Watched(watched, label) == IF watched THEN label ELSE NoCall

\* a thread calls tracker.register_sent(image_id)
TrackerRegisterSent(o, image_id, watched) ==
    /\ o \in TrackerObjects
    /\ SentUpTo(trackers, Len(trackers)) < MaxSent
    /\ trackers' = [trackers EXCEPT ![o] = RegisterSent(@, image_id)]
    /\ call' = Watched(watched, [op |-> "register_sent", tracker |-> o,
                                  image_id |-> image_id])
    /\ UNCHANGED registry

\* a thread calls tracker.mark_processed(image_id)
TrackerMarkProcessed(o, image_id) ==
    /\ o \in TrackerObjects
    /\ trackers' = [trackers EXCEPT ![o] = MarkProcessed(@, image_id)]
    /\ SentUpTo(trackers', Len(trackers)) <= MaxSent
    /\ call' = [op |-> "mark_processed", tracker |-> o, image_id |-> image_id]
    /\ UNCHANGED registry

\* a thread calls tracker.clear()
TrackerClear(o) ==
    /\ o \in TrackerObjects
    /\ trackers' = [trackers EXCEPT ![o] = Clear(@)]
    /\ call' = [op |-> "clear", tracker |-> o]
    /\ UNCHANGED registry

\* a thread calls tracker.reset_for_new_batch()
TrackerResetForNewBatch(o) ==
    /\ o \in TrackerObjects
    /\ trackers' = [trackers EXCEPT ![o] = ResetForNewBatch(@)]
    /\ call' = [op |-> "reset_for_new_batch", tracker |-> o]
    /\ UNCHANGED registry

\* get_or_create_tracker building a new tracker on every call
GetOrCreateTracker_always_new(viewer_port, viewer_type, watched) ==
    /\ Len(trackers) < MaxTrackers
    /\ trackers' = Append(trackers, NewTracker(viewer_port, viewer_type))
    /\ registry' = [p \in DOMAIN registry \cup {viewer_port} |->
                       IF p = viewer_port THEN Len(trackers) + 1 ELSE registry[p]]
    /\ call' = Watched(watched, [op |-> "get_or_create_tracker", port |-> viewer_port,
                                  result |-> Len(trackers) + 1])

\* GlobalQueueTrackerRegistry.get_or_create_tracker
GetOrCreateTracker(viewer_port, viewer_type, watched) ==
    IF viewer_port \notin DOMAIN registry
    THEN /\ Len(trackers) < MaxTrackers
         /\ trackers' = Append(trackers, NewTracker(viewer_port, viewer_type))
         /\ registry' = [p \in DOMAIN registry \cup {viewer_port} |->
                            IF p = viewer_port THEN Len(trackers) + 1 ELSE registry[p]]
         /\ call' = Watched(watched, [op |-> "get_or_create_tracker", port |-> viewer_port,
                                       result |-> Len(trackers) + 1])
    ELSE /\ call' = Watched(watched, [op |-> "get_or_create_tracker", port |-> viewer_port,
                                       result |-> registry[viewer_port]])
         /\ UNCHANGED <<trackers, registry>>

\* GlobalQueueTrackerRegistry.get_tracker
GetTracker(viewer_port) ==
    /\ call' = [op |-> "get_tracker", port |-> viewer_port,
                result |-> IF viewer_port \in DOMAIN registry
                           THEN registry[viewer_port] ELSE NoTracker]
    /\ UNCHANGED <<trackers, registry>>

\* GlobalQueueTrackerRegistry.remove_tracker
RemoveTracker(viewer_port, watched) ==
    /\ registry' = [p \in DOMAIN registry \ {viewer_port} |-> registry[p]]
    /\ call' = Watched(watched, [op |-> "remove_tracker", port |-> viewer_port])
    /\ UNCHANGED trackers

\* GlobalQueueTrackerRegistry.clear_all
ClearAll ==
    /\ registry' = <<>>
    /\ call' = [op |-> "clear_all"]
    /\ UNCHANGED trackers

\* the calls threads make on the registry and on the trackers they hold;
\* each call runs under the lock of its object
TrackerNext ==
    \/ \E o \in 1..MaxTrackers, x \in ImageIds : TrackerRegisterSent(o, x, TRUE) /\ UNCHANGED <<serverVars, listenerVars, clientVars, waitVars, progressVars, kitVars>>
    \/ \E o \in 1..MaxTrackers, x \in ImageIds : TrackerMarkProcessed(o, x) /\ UNCHANGED <<serverVars, listenerVars, clientVars, waitVars, progressVars, kitVars>>
    \/ \E o \in 1..MaxTrackers : TrackerClear(o) /\ UNCHANGED <<serverVars, listenerVars, clientVars, waitVars, progressVars, kitVars>>
    \/ \E o \in 1..MaxTrackers : TrackerResetForNewBatch(o) /\ UNCHANGED <<serverVars, listenerVars, clientVars, waitVars, progressVars, kitVars>>
    \/ \E p \in ViewerPorts : GetOrCreateTracker(p, ViewerTypeOf(p), TRUE) /\ UNCHANGED <<serverVars, listenerVars, clientVars, waitVars, progressVars, kitVars>>
    \/ \E p \in ViewerPorts : GetTracker(p) /\ UNCHANGED <<serverVars, listenerVars, clientVars, waitVars, progressVars, kitVars>>
    \/ \E p \in ViewerPorts : RemoveTracker(p, TRUE) /\ UNCHANGED <<serverVars, listenerVars, clientVars, waitVars, progressVars, kitVars>>
    \/ ClearAll /\ UNCHANGED <<serverVars, listenerVars, clientVars, waitVars, progressVars, kitVars>>

SpecTracker == Init /\ [][TrackerNext]_vars


(*************************** ack listener ***********************************)
\* get_default_transport_mode() off Windows
DefaultTransportMode == "ipc"
\* ZMQConfig() / transport._default_config
DefaultConfig == "ZMQConfig()"

\* the argument lists start() is called with
StartArgs ==
    { [port |-> 7555, transport_mode |-> None, host |-> "*", config |-> None],
      [port |-> 7555, transport_mode |-> "tcp", host |-> "*", config |-> None],
      [port |-> 7556, transport_mode |-> "tcp", host |-> "127.0.0.1", config |-> "custom"] }

\* transport.get_zmq_transport_url
TransportUrl(port, host, mode, config) ==
    LET cfg == IF config # None THEN config ELSE DefaultConfig
        m == IF mode # None THEN mode ELSE DefaultTransportMode
    IN IF m = "ipc"
       THEN "ipc://" \o cfg \o "-" \o ToString(port) \o ".sock"
       ELSE "tcp://" \o host \o ":" \o ToString(port)

\* what socket.poll / recv_json hand to the loop: nothing within the
\* timeout, a ZMQError, bytes that are no JSON, a JSON object without the
\* ack fields, or an ack
WellFormedAcks ==
    { [kind |-> "ack", data |-> [image_id |-> x, viewer_port |-> p,
                                 viewer_type |-> ViewerTypeOf(p)]] :
        x \in ImageIds, p \in ViewerPorts }
Polled ==
    { [kind |-> "timeout"], [kind |-> "zmq_error"], [kind |-> "not_json"],
      [kind |-> "malformed", data |-> [image_id |-> "img-1"]] } \cup WellFormedAcks

\* ImageAck.from_dict: a missing key raises KeyError
ImageAck_from_dict(data) ==
    IF ~(Has(data, "image_id") /\ Has(data, "viewer_port") /\ Has(data, "viewer_type"))
    THEN [raised |-> TRUE]
    ELSE [raised |-> FALSE,
          ack |-> [image_id |-> data.image_id, viewer_port |-> data.viewer_port,
                   viewer_type |-> data.viewer_type]]

\* the thread runs and has not left _listener_loop
LoopAlive(t) == loop[t].pc \notin {"unborn", "closed"}

\* GlobalAckListener.start, under the class lock; threads are the Thread
\* objects it can still create
ListenerStart(args, threads) ==
    /\ IF listener_running
       THEN UNCHANGED <<listener_settings, listener_running, listener_thread, loop>>
       ELSE \E t \in threads :
               /\ loop[t].pc = "unborn"
               /\ \A u \in ListenerThreads : u < t => loop[u].pc # "unborn"
               /\ listener_settings' =
                     [port |-> args.port, host |-> args.host,
                      transport_mode |-> IF args.transport_mode # None
                                         THEN args.transport_mode ELSE DefaultTransportMode,
                      config |-> IF args.config # None THEN args.config ELSE DefaultConfig]
               /\ listener_running' = TRUE
               /\ listener_thread' = t
               /\ loop' = [loop EXCEPT ![t].pc = "setup"]
    /\ call' = NoCall
    /\ UNCHANGED <<callbacks, trackers, registry>>

\* GlobalAckListener.stop, under the class lock
ListenerStop ==
    /\ listener_running' = FALSE
    /\ call' = NoCall
    /\ UNCHANGED <<listener_settings, listener_thread, loop, callbacks, trackers, registry>>

\* GlobalAckListener.register_callback
RegisterCallback ==
    /\ Len(callbacks) < 1 + MaxCallbacks
    /\ callbacks' = Append(callbacks, "callback-" \o ToString(Len(callbacks)))
    /\ call' = NoCall
    /\ UNCHANGED <<listener_running, listener_settings, listener_thread, loop,
                   trackers, registry>>

\* _listener_loop up to socket.bind: the url is built from the settings
\* stored when the thread gets here; a bind on an endpoint another loop of
\* the process holds, or one the system refuses, raises and the thread
\* leaves through the finally block
LoopBind(t, refused) ==
    /\ loop[t].pc = "setup"
    /\ \E url \in {TransportUrl(listener_settings.port, listener_settings.host,
                                listener_settings.transport_mode,
                                listener_settings.config)} :
          IF refused \/ listener_settings.port = NoPort
             \/ \E u \in ListenerThreads : LoopAlive(u) /\ loop[u].url = url
          THEN loop' = [loop EXCEPT ![t].pc = "closed"]
          ELSE loop' = [loop EXCEPT ![t].pc = "while", ![t].url = url]
    /\ call' = NoCall
    /\ UNCHANGED <<listener_running, listener_settings, listener_thread, callbacks,
                   trackers, registry>>

\* while self._running: a false flag ends the loop, the finally block closes
\* the socket and terminates the context
LoopWhile(t) ==
    /\ loop[t].pc = "while"
    /\ IF listener_running
       THEN loop' = [loop EXCEPT ![t] = [@ EXCEPT !.pc = "poll", !.ack = NoAck,
                                                   !.done = <<>>,
                                                   !.target = 0, !.marked = 0]]
       ELSE loop' = [loop EXCEPT ![t] = [NotStarted EXCEPT !.pc = "closed"]]
    /\ call' = NoCall
    /\ UNCHANGED <<listener_running, listener_settings, listener_thread, callbacks,
                   trackers, registry>>

\* socket.poll(timeout=1000), recv_json, ImageAck.from_dict and the copy of
\* the callback list
LoopPoll(t, polled) ==
    /\ loop[t].pc = "poll"
    /\ IF polled.kind \in {"timeout", "zmq_error"}
       THEN loop' = [loop EXCEPT ![t].pc = "while"]
       ELSE IF polled.kind = "not_json"
       THEN loop' = [loop EXCEPT ![t] = [NotStarted EXCEPT !.pc = "closed"]]
       ELSE \E parsed \in {ImageAck_from_dict(polled.data)} :
               IF parsed.raised
               THEN loop' = [loop EXCEPT ![t].pc = "while"]
               ELSE loop' = [loop EXCEPT ![t].pc = "dispatch", ![t].ack = parsed.ack,
                                         ![t].todo = callbacks]
    /\ call' = NoCall
    /\ UNCHANGED <<listener_running, listener_settings, listener_thread, callbacks,
                   trackers, registry>>

\* the for loop ending at the first callback that raises
AfterCallback_raise_ends_dispatch(l, raised) ==
    [l EXCEPT !.todo = IF raised THEN <<>> ELSE Tail(@),
              !.done = Append(@, Head(l.todo)),
              !.pc = IF Len(l.todo) > 1 /\ ~raised THEN "dispatch" ELSE "while"]

\* where the loop goes after a callback returned or raised (the exception is
\* logged): to the next callback of the copy, or back to the while test
AfterCallback(l, raised) ==
    [l EXCEPT !.todo = Tail(@),
              !.done = Append(@, Head(l.todo)),
              !.pc = IF Len(l.todo) > 1 THEN "dispatch" ELSE "while"]

\* callback(ack) for the next callback of the copy.  The default callback
\* looks the tracker of ack.viewer_port up; a registered callback returns or
\* raises, which the loop logs.
LoopCallback(t) ==
    /\ loop[t].pc = "dispatch"
    /\ IF Head(loop[t].todo) = "_mark_processed"
       THEN \E found \in {IF loop[t].ack.viewer_port \in DOMAIN registry
                          THEN registry[loop[t].ack.viewer_port] ELSE NoTracker} :
               /\ call' = [op |-> "get_tracker", port |-> loop[t].ack.viewer_port,
                           result |-> found]
               /\ loop' = [loop EXCEPT ![t] =
                              IF found = NoTracker
                              THEN AfterCallback([@ EXCEPT !.target = found], FALSE)
                              ELSE [@ EXCEPT !.target = found, !.pc = "mark"]]
       ELSE /\ call' = NoCall
            /\ \E raised \in BOOLEAN : loop' = [loop EXCEPT ![t] = AfterCallback(@, raised)]
    /\ UNCHANGED <<listener_running, listener_settings, listener_thread, callbacks,
                   trackers, registry>>

\* the default callback marking the ack on every tracker
LoopMarkProcessed_every_tracker(t) ==
    /\ loop[t].pc = "mark"
    /\ trackers' = [o \in DOMAIN trackers |-> MarkProcessed(trackers[o], loop[t].ack.image_id)]
    /\ SentUpTo(trackers', Len(trackers)) <= MaxSent
    /\ call' = [op |-> "mark_processed", tracker |-> loop[t].target,
                image_id |-> loop[t].ack.image_id]
    /\ loop' = [loop EXCEPT ![t] = AfterCallback([@ EXCEPT !.marked = @ + 1], FALSE)]
    /\ UNCHANGED <<listener_running, listener_settings, listener_thread, callbacks,
                   registry>>

\* the default callback: tracker.mark_processed(ack.image_id) on the tracker
\* it found
LoopMarkProcessed(t) ==
    /\ loop[t].pc = "mark"
    /\ trackers' = [trackers EXCEPT ![loop[t].target] = MarkProcessed(@, loop[t].ack.image_id)]
    /\ SentUpTo(trackers', Len(trackers)) <= MaxSent
    /\ call' = [op |-> "mark_processed", tracker |-> loop[t].target,
                image_id |-> loop[t].ack.image_id]
    /\ loop' = [loop EXCEPT ![t] = AfterCallback([@ EXCEPT !.marked = @ + 1], FALSE)]
    /\ UNCHANGED <<listener_running, listener_settings, listener_thread, callbacks,
                   registry>>

\* the polls that hand no ack to the callbacks
IdlePolled == { polled \in Polled : polled.kind # "ack" }

\* the images acks are received for
AckedImageIds == {"img-1"}
AckPolled == { polled \in Polled : polled.kind = "ack" => polled.data.image_id \in AckedImageIds }

\* one step of listener thread t
LoopStep(t) ==
    \/ \E refused \in BOOLEAN : LoopBind(t, refused)
    \/ LoopWhile(t)
    \/ \E polled \in Polled : LoopPoll(t, polled)
    \/ LoopCallback(t)
    \/ LoopMarkProcessed(t)

\* the threads that start and stop the listener, and its loop threads up to
\* the receipt of a message
ListenerNext(threads, starts, polls) ==
    \/ \E args \in starts : ListenerStart(args, threads) /\ UNCHANGED <<serverVars, clientVars, waitVars, progressVars, kitVars>>
    \/ ListenerStop /\ UNCHANGED <<serverVars, clientVars, waitVars, progressVars, kitVars>>
    \/ \E t \in threads, refused \in BOOLEAN : LoopBind(t, refused) /\ UNCHANGED <<serverVars, clientVars, waitVars, progressVars, kitVars>>
    \/ \E t \in threads : LoopWhile(t) /\ UNCHANGED <<serverVars, clientVars, waitVars, progressVars, kitVars>>
    \/ \E t \in threads, polled \in polls : LoopPoll(t, polled) /\ UNCHANGED <<serverVars, clientVars, waitVars, progressVars, kitVars>>

\* the life of the listener: every thread start() creates, no ack arriving
LifeNext == ListenerNext(ListenerThreads, StartArgs, IdlePolled)
SpecListener == Init /\ [][LifeNext]_vars

\* every listener thread that can take a step eventually takes one
SpecListenerFair ==
    SpecListener /\ \A t \in ListenerThreads : WF_vars(LoopStep(t) /\ UNCHANGED <<serverVars, clientVars, waitVars, progressVars, kitVars>>)

\* start(port) with the defaults of the other arguments
DefaultStartArgs == { args \in StartArgs : args.transport_mode = None /\ args.config = None }

\* one listener thread receiving acks, the threads that register callbacks,
\* and the threads that register viewers and the images sent to them; the
\* calls watched are those of the listener thread
AckNext ==
    \/ ListenerNext({1}, DefaultStartArgs, AckPolled)
    \/ RegisterCallback /\ UNCHANGED <<serverVars, clientVars, waitVars, progressVars, kitVars>>
    \/ LoopCallback(1) /\ UNCHANGED <<serverVars, clientVars, waitVars, progressVars, kitVars>>
    \/ LoopMarkProcessed(1) /\ UNCHANGED <<serverVars, clientVars, waitVars, progressVars, kitVars>>
    \/ \E p \in ViewerPorts :
          GetOrCreateTracker(p, ViewerTypeOf(p), FALSE) /\ UNCHANGED <<serverVars, listenerVars, clientVars, waitVars, progressVars, kitVars>>
    \/ \E p \in ViewerPorts : RemoveTracker(p, FALSE) /\ UNCHANGED <<serverVars, listenerVars, clientVars, waitVars, progressVars, kitVars>>
    \/ \E o \in 1..MaxTrackers, x \in AckedImageIds :
          TrackerRegisterSent(o, x, FALSE) /\ UNCHANGED <<serverVars, listenerVars, clientVars, waitVars, progressVars, kitVars>>

SpecAck == Init /\ [][AckNext]_vars


(***************************** ZMQClient ************************************)
\* number of server processes the client spawns
MaxSpawns == 2

\* a process object _spawn_server_process returned
NewProcess == [alive |-> TRUE]

\* the port after the server behind it went away
Released(port, pid) ==
    IF port.serving /\ port.owner = pid THEN PortFree ELSE port

\* ZMQClient(port, persistent=p)
ClientNew(p) ==
    /\ ~client.made
    /\ client' = [NoClient EXCEPT !.made = TRUE, !.persistent = p]
    /\ client_call' = NoClientCall
    /\ UNCHANGED <<connection, processes, port_state>>

\* connect() on a connected client
ConnectConnected ==
    /\ client.made
    /\ client.connected
    /\ client_call' = [op |-> "connect", probed |-> FALSE, handshake |-> "none",
                       spawned |-> 0, terminated |-> 0, killed |-> 0, result |-> TRUE]
    /\ UNCHANGED <<client, connection, processes, port_state>>

\* _try_connect_to_existing: the server behind the port answers the ping in
\* time with a pong that has ready set
PongReady == port_state.in_use /\ port_state.serving /\ port_state.ready

\* connect() whose handshake found a ready server, one that spawns a process
\* all the same
ConnectExisting_spawns ==
    /\ client.made
    /\ ~client.connected
    /\ PongReady
    /\ Len(processes) < MaxSpawns
    /\ processes' = Append(processes, NewProcess)
    /\ client' = [client EXCEPT !.connected = TRUE, !.connected_to_existing = TRUE,
                                !.server_process = Len(processes) + 1]
    /\ connection' = [how |-> "adopted", server |-> port_state.owner]
    /\ client_call' = [op |-> "connect", probed |-> TRUE, handshake |-> "ready",
                       spawned |-> 1, terminated |-> 0, killed |-> 0, result |-> TRUE]
    /\ UNCHANGED port_state

\* connect() whose handshake found a ready server
ConnectExisting ==
    /\ client.made
    /\ ~client.connected
    /\ PongReady
    /\ client' = [client EXCEPT !.connected = TRUE, !.connected_to_existing = TRUE]
    /\ connection' = [how |-> "adopted", server |-> port_state.owner]
    /\ client_call' = [op |-> "connect", probed |-> TRUE, handshake |-> "ready",
                       spawned |-> 0, terminated |-> 0, killed |-> 0, result |-> TRUE]
    /\ UNCHANGED <<processes, port_state>>

\* what _wait_for_server_ready finds: the child answers a ping with a ready
\* pong, the child does not answer within the timeout, the child has exited
SpawnOutcomes == {"ready", "slow", "exited"}

\* _kill_processes_on_port: a child of this client serving the port is killed
\* (tcp) or only loses its socket file (ipc)
AfterKill(procs, hit) ==
    IF port_state.serving /\ port_state.owner # 0 /\ hit
    THEN [procs EXCEPT ![port_state.owner] = [alive |-> FALSE]]
    ELSE procs

\* connect() on a free port, or on a port in use whose handshake failed
\* (no pong within 500 ms, or a pong without ready)
ConnectSpawn(hit, outcome) ==
    /\ client.made
    /\ ~client.connected
    /\ Len(processes) < MaxSpawns
    /\ port_state.in_use \/ ~hit
    /\ \E pid \in {Len(processes) + 1} :
          /\ processes' = Append(AfterKill(processes, hit),
                                 [alive |-> outcome # "exited"])
          /\ port_state' = IF outcome = "exited" THEN PortFree
                           ELSE [in_use |-> TRUE, serving |-> TRUE, owner |-> pid,
                                 ready |-> outcome = "ready"]
          /\ client' = IF outcome = "ready"
                       THEN [client EXCEPT !.server_process = pid, !.data_socket = TRUE,
                                           !.connected = TRUE]
                       ELSE [client EXCEPT !.server_process = pid]
          /\ connection' = IF outcome = "ready"
                           THEN [how |-> "spawned", server |-> pid]
                           ELSE connection
    /\ client_call' = [op |-> "connect", probed |-> TRUE,
                       handshake |-> IF port_state.in_use THEN "failed" ELSE "none",
                       spawned |-> 1, terminated |-> 0, killed |-> 0,
                       result |-> outcome = "ready"]

\* disconnect() that terminates the spawned process whatever
\* _connected_to_existing holds
Disconnect_ignores_existing(survives) ==
    /\ client.made
    /\ \/ /\ ~client.connected
          /\ ~survives
          /\ client_call' = [op |-> "disconnect", probed |-> FALSE, handshake |-> "none",
                             spawned |-> 0, terminated |-> 0, killed |-> 0, result |-> FALSE]
          /\ UNCHANGED <<client, connection, processes, port_state>>
       \/ /\ client.connected
          /\ client' = [client EXCEPT !.data_socket = FALSE, !.connected = FALSE]
          /\ connection' = NoConnection
          /\ IF client.server_process # 0 /\ ~client.persistent
                /\ processes[client.server_process].alive
             THEN /\ processes' = [processes EXCEPT ![client.server_process] = [alive |-> FALSE]]
                  /\ port_state' = Released(port_state, client.server_process)
                  /\ client_call' = [op |-> "disconnect", probed |-> FALSE,
                                     handshake |-> "none", spawned |-> 0,
                                     terminated |-> client.server_process,
                                     killed |-> IF survives THEN client.server_process ELSE 0,
                                     result |-> TRUE]
             ELSE /\ ~survives
                  /\ client_call' = [op |-> "disconnect", probed |-> FALSE,
                                     handshake |-> "none", spawned |-> 0, terminated |-> 0,
                                     killed |-> 0, result |-> TRUE]
                  /\ UNCHANGED <<processes, port_state>>

\* disconnect(); survives tells whether the process is still alive 5 s after
\* terminate()
Disconnect(survives) ==
    /\ client.made
    /\ \/ /\ ~client.connected
          /\ ~survives
          /\ client_call' = [op |-> "disconnect", probed |-> FALSE, handshake |-> "none",
                             spawned |-> 0, terminated |-> 0, killed |-> 0, result |-> FALSE]
          /\ UNCHANGED <<client, connection, processes, port_state>>
       \/ /\ client.connected
          /\ client' = [client EXCEPT !.data_socket = FALSE, !.connected = FALSE]
          /\ connection' = NoConnection
          /\ IF ~client.connected_to_existing /\ client.server_process # 0
                /\ ~client.persistent /\ processes[client.server_process].alive
             THEN /\ processes' = [processes EXCEPT ![client.server_process] = [alive |-> FALSE]]
                  /\ port_state' = Released(port_state, client.server_process)
                  /\ client_call' = [op |-> "disconnect", probed |-> FALSE,
                                     handshake |-> "none", spawned |-> 0,
                                     terminated |-> client.server_process,
                                     killed |-> IF survives THEN client.server_process ELSE 0,
                                     result |-> TRUE]
             ELSE /\ ~survives
                  /\ client_call' = [op |-> "disconnect", probed |-> FALSE,
                                     handshake |-> "none", spawned |-> 0, terminated |-> 0,
                                     killed |-> 0, result |-> TRUE]
                  /\ UNCHANGED <<processes, port_state>>

\* a server this client did not spawn binds the port
ExternalServerUp(isReady) ==
    /\ ~port_state.in_use
    /\ port_state' = [in_use |-> TRUE, serving |-> TRUE, owner |-> 0, ready |-> isReady]
    /\ client_call' = NoClientCall
    /\ UNCHANGED <<client, connection, processes>>

\* the server behind the port processes its first ping (ZMQServer sets _ready)
ServerFirstPing ==
    /\ port_state.serving
    /\ ~port_state.ready
    /\ port_state' = [port_state EXCEPT !.ready = TRUE]
    /\ client_call' = NoClientCall
    /\ UNCHANGED <<client, connection, processes>>

\* the server behind the port exits; an ipc socket file may stay behind
ServerExit(stale) ==
    /\ port_state.serving
    /\ port_state' = [PortFree EXCEPT !.in_use = stale]
    /\ processes' = IF port_state.owner # 0
                    THEN [processes EXCEPT ![port_state.owner] = [alive |-> FALSE]]
                    ELSE processes
    /\ client_call' = NoClientCall
    /\ UNCHANGED <<client, connection>>

\* a stale socket file is removed
StaleRemoved ==
    /\ port_state.in_use
    /\ ~port_state.serving
    /\ port_state' = PortFree
    /\ client_call' = NoClientCall
    /\ UNCHANGED <<client, connection, processes>>

\* one client object, the threads calling connect() and disconnect() on it
\* (both run under the client's lock), and the servers behind its port
ClientNext ==
    \/ \E p \in BOOLEAN : ClientNew(p) /\ UNCHANGED <<serverVars, trackerVars, listenerVars, waitVars, progressVars, kitVars>>
    \/ ConnectConnected /\ UNCHANGED <<serverVars, trackerVars, listenerVars, waitVars, progressVars, kitVars>>
    \/ ConnectExisting /\ UNCHANGED <<serverVars, trackerVars, listenerVars, waitVars, progressVars, kitVars>>
    \/ \E hit \in BOOLEAN, outcome \in SpawnOutcomes :
          ConnectSpawn(hit, outcome) /\ UNCHANGED <<serverVars, trackerVars, listenerVars, waitVars, progressVars, kitVars>>
    \/ \E survives \in BOOLEAN : Disconnect(survives) /\ UNCHANGED <<serverVars, trackerVars, listenerVars, waitVars, progressVars, kitVars>>
    \/ \E isReady \in BOOLEAN : ExternalServerUp(isReady) /\ UNCHANGED <<serverVars, trackerVars, listenerVars, waitVars, progressVars, kitVars>>
    \/ ServerFirstPing /\ UNCHANGED <<serverVars, trackerVars, listenerVars, waitVars, progressVars, kitVars>>
    \/ \E stale \in BOOLEAN : ServerExit(stale) /\ UNCHANGED <<serverVars, trackerVars, listenerVars, waitVars, progressVars, kitVars>>
    \/ StaleRemoved /\ UNCHANGED <<serverVars, trackerVars, listenerVars, waitVars, progressVars, kitVars>>

SpecClient == Init /\ [][ClientNext]_vars


(************************ ExecutionClient ***********************************)
\* number of status polls one wait_for_completion call makes
MaxPolls == 3
\* largest max_consecutive_errors passed to wait_for_completion
MaxErrors == 2

\* the id wait_for_completion is called with: the id of the first execution
\* accepted, unknown to the server until then
WaitIds == {Uuid(1)}

\* the request poll_status sends
PollStatus(execution_id) ==
    Mapping(IF Truthy(execution_id)
            THEN [type |-> "status", execution_id |-> execution_id]
            ELSE [type |-> "status"])

\* dict.get(key, default)
GetOr(data, k, default) == IF Has(data, k) THEN data[k] ELSE default

\* the execution status a status reply reports, None when it reports none
Reported(reply) ==
    IF Get(reply, "status") = "ok"
    THEN Get(GetOr(reply, "execution", <<>>), "status")
    ELSE Get(reply, "status")

\* the value wait_for_completion returns on a reply, NoResult when it goes on
\* polling
ResultOf(execution_id, reply) ==
    LET execution == GetOr(reply, "execution", <<>>)
        exec_status == Get(execution, "status")
    IN IF Get(reply, "status") = "ok"
       THEN IF exec_status = "complete"
            THEN [status |-> "complete", execution_id |-> execution_id, message |-> None,
                  results |-> GetOr(execution, "results_summary", <<>>)]
            ELSE IF exec_status = "failed"
            THEN [status |-> "failed", execution_id |-> execution_id,
                  message |-> Get(execution, "error"), results |-> <<>>]
            ELSE IF exec_status = "cancelled"
            THEN [status |-> "cancelled", execution_id |-> execution_id,
                  message |-> "Execution was cancelled", results |-> <<>>]
            ELSE NoResult
       ELSE IF Get(reply, "status") = "error"
       THEN [status |-> "error", execution_id |-> execution_id,
             message |-> GetOr(reply, "message", "Unknown error"), results |-> <<>>]
       ELSE NoResult

\* the loop after an answered poll, one that keeps the count of errors
AfterAnswer_keeps_errors(w, reply) ==
    [w EXCEPT !.poll_count = @ + 1,
              !.result = ResultOf(w.execution_id, reply),
              !.pc = IF ResultOf(w.execution_id, reply) = NoResult THEN "poll" ELSE "returned",
              !.streak = 0,
              !.reported = Reported(reply)]

\* the loop after an answered poll, one that polls on when the execution is
\* reported cancelled
AfterAnswer_polls_on_cancelled(w, reply) ==
    [w EXCEPT !.poll_count = @ + 1,
              !.consecutive_errors = 0,
              !.result = IF Reported(reply) = "cancelled" THEN NoResult
                         ELSE ResultOf(w.execution_id, reply),
              !.pc = IF Reported(reply) = "cancelled"
                        \/ ResultOf(w.execution_id, reply) = NoResult
                     THEN "poll" ELSE "returned",
              !.streak = 0,
              !.reported = Reported(reply)]

\* the loop after poll_status returned reply
AfterAnswer(w, reply) ==
    [w EXCEPT !.poll_count = @ + 1,
              !.consecutive_errors = 0,
              !.result = ResultOf(w.execution_id, reply),
              !.pc = IF ResultOf(w.execution_id, reply) = NoResult THEN "poll" ELSE "returned",
              !.streak = 0,
              !.reported = Reported(reply)]

\* the loop after poll_status raised
AfterError(w) ==
    [w EXCEPT !.poll_count = @ + 1,
              !.consecutive_errors = @ + 1,
              !.result = IF w.consecutive_errors + 1 >= w.max_consecutive_errors
                         THEN [status |-> "cancelled", execution_id |-> w.execution_id,
                               message |-> "Lost connection to server", results |-> <<>>]
                         ELSE NoResult,
              !.pc = IF w.consecutive_errors + 1 >= w.max_consecutive_errors
                     THEN "returned" ELSE "poll",
              !.streak = @ + 1,
              !.reported = None]

\* wait_for_completion(execution_id, max_consecutive_errors=n) is called
WaitForCompletion(execution_id, n) ==
    /\ wait.pc = "idle"
    /\ wait' = [NotWaiting EXCEPT !.pc = "poll", !.execution_id = execution_id,
                                  !.max_consecutive_errors = n]

\* one turn of the loop whose poll the server answers: the event loop of the
\* server processes the status request and sends its reply
WaitPollAnswered ==
    /\ wait.pc = "poll"
    /\ wait.poll_count < MaxPolls
    /\ HostMayRun(FALSE)
    /\ ProcessMessages(PollStatus(wait.execution_id), 0)
    /\ wait' = AfterAnswer(wait, response')

\* one turn of the loop whose poll raises: no reply within the timeout
WaitPollFailed ==
    /\ wait.pc = "poll"
    /\ wait.poll_count < MaxPolls
    /\ wait' = AfterError(wait)

\* the requests other clients send while one waits
WaitPayloads ==
    { Mapping([type |-> "execute", plate_id |-> "P1", pipeline_code |-> "noop",
               config_params |-> "{x: 1}"]),
      Mapping([type |-> "cancel", execution_id |-> Uuid(1)]) }

\* the server, and one client thread inside wait_for_completion
WaitNext ==
    \/ ServerNext({1}, WaitPayloads, FALSE)
    \/ \E e \in WaitIds, n \in 1..MaxErrors :
          WaitForCompletion(e, n) /\ UNCHANGED <<serverVars, trackerVars, listenerVars, clientVars, progressVars, kitVars>>
    \/ WaitPollAnswered /\ UNCHANGED <<trackerVars, listenerVars, clientVars, progressVars, kitVars>>
    \/ WaitPollFailed /\ UNCHANGED <<serverVars, trackerVars, listenerVars, clientVars, progressVars, kitVars>>

SpecWait == Init /\ [][WaitNext]_vars


(************************* progress updates *********************************)
\* number of progress updates send_progress_update enqueues
MaxProgress == 3

\* the arguments send_progress_update is called with
WellIds == {"A1"}
ProgressStatuses == {"started", "done"}

\* the dict send_progress_update puts on the queue
ProgressUpdate(well_id, step, status, now) ==
    [type |-> "progress", well_id |-> well_id, step |-> step, status |-> status,
     timestamp |-> now]

\* json.dumps of a progress dict
JsonDumps(d) ==
    "{\"type\": \"" \o d.type \o "\", \"well_id\": \"" \o d.well_id
       \o "\", \"step\": \"" \o d.step \o "\", \"status\": \"" \o d.status
       \o "\", \"timestamp\": " \o ToString(d.timestamp) \o "}"

\* self.data_socket is not None: start() creates it before the control socket,
\* stop() sets both to None
DataSocketOpen == control_socket

\* send_progress_update(well_id, step, status), called by the thread that
\* runs a task
SendProgressUpdate(well_id, step, status) ==
    /\ Len(enqueued) < MaxProgress
    /\ \E d \in {ProgressUpdate(well_id, step, status, clock)} :
          /\ progress_queue' = Append(progress_queue, d)
          /\ enqueued' = Append(enqueued, d)
    /\ clock' = clock + 1
    /\ UNCHANGED <<published, event_loop>>
    /\ UNCHANGED <<running, ready, control_socket, awaiting_send, server_start_time,
                   active_executions, execution_queue, queue_worker_thread, worker,
                   caller, request, response, task_outcome, execute_log,
                   cancelled_queued>>

\* process_messages() is called and ZMQServer.process_messages returns at
\* once: the server does not run or no request is pending
ProcessMessagesIdle ==
    /\ event_loop = "idle"
    /\ event_loop' = "while"
    /\ UNCHANGED <<progress_queue, published, enqueued>>
    /\ UNCHANGED serverVars

\* process_messages() is called and ZMQServer.process_messages handles the
\* pending request
ProcessMessagesTurn(payload, killed) ==
    /\ event_loop = "idle"
    /\ ProcessMessages(payload, killed)
    /\ event_loop' = "while"
    /\ UNCHANGED <<progress_queue, published, enqueued>>

\* the test of the drain loop and the test of data_socket inside it
DrainWhile ==
    /\ event_loop = "while"
    /\ event_loop' = IF progress_queue = <<>> THEN "idle"
                     ELSE IF DataSocketOpen THEN "send"
                     ELSE "while"
    /\ UNCHANGED <<progress_queue, published, enqueued>>
    /\ UNCHANGED serverVars

\* the send of the drain loop, one that takes the newest entry of the queue
DrainSend_takes_newest(raised) ==
    /\ event_loop = "send"
    /\ IF ~DataSocketOpen
       THEN /\ ~raised
            /\ event_loop' = "idle"
            /\ UNCHANGED <<progress_queue, published>>
       ELSE /\ progress_queue' = SubSeq(progress_queue, 1, Len(progress_queue) - 1)
            /\ published' = IF raised THEN published
                            ELSE Append(published,
                                        JsonDumps(progress_queue[Len(progress_queue)]))
            /\ event_loop' = IF raised THEN "idle" ELSE "while"
    /\ UNCHANGED enqueued
    /\ UNCHANGED serverVars

\* the send of the drain loop: data_socket is None by now (AttributeError,
\* the entry stays queued), or the oldest entry is taken and send_string
\* sends it or raises
DrainSend(raised) ==
    /\ event_loop = "send"
    /\ IF ~DataSocketOpen
       THEN /\ ~raised
            /\ event_loop' = "idle"
            /\ UNCHANGED <<progress_queue, published>>
       ELSE /\ progress_queue' = Tail(progress_queue)
            /\ published' = IF raised THEN published
                            ELSE Append(published, JsonDumps(Head(progress_queue)))
            /\ event_loop' = IF raised THEN "idle" ELSE "while"
    /\ UNCHANGED enqueued
    /\ UNCHANGED serverVars

\* the requests that arrive while progress is published
ProgressPayloads == { Mapping([type |-> "ping"]), Mapping([type |-> "force_shutdown"]) }

\* the steps of the event loop inside the drain loop of process_messages
DrainStep ==
    \/ DrainWhile
    \/ \E raised \in BOOLEAN : DrainSend(raised)

\* a thread calling start(), a thread calling stop(), the event loop calling
\* process_messages(), and the threads calling send_progress_update
ProgressNext ==
    \/ \E c \in {1} : StartBase(c) /\ UNCHANGED <<trackerVars, listenerVars, clientVars, waitVars, progressVars, kitVars>>
    \/ \E c \in {1} : StartQueueWorkerCheck(c) /\ UNCHANGED <<trackerVars, listenerVars, clientVars, waitVars, progressVars, kitVars>>
    \/ \E c \in {1} : StartQueueWorkerCreate(c) /\ UNCHANGED <<trackerVars, listenerVars, clientVars, waitVars, progressVars, kitVars>>
    \/ Stop /\ UNCHANGED <<trackerVars, listenerVars, clientVars, waitVars, progressVars, kitVars>>
    \/ \E w \in WellIds, st \in ProgressStatuses :
          SendProgressUpdate(w, "step", st) /\ UNCHANGED <<trackerVars, listenerVars, clientVars, waitVars, kitVars>>
    \/ ProcessMessagesIdle /\ UNCHANGED <<trackerVars, listenerVars, clientVars, waitVars, kitVars>>
    \/ \E p \in ProgressPayloads :
          \E k \in IF Kills(p) THEN 0..MaxChildren ELSE {0} :
             ProcessMessagesTurn(p, k) /\ UNCHANGED <<trackerVars, listenerVars, clientVars, waitVars, kitVars>>
    \/ DrainWhile /\ UNCHANGED <<trackerVars, listenerVars, clientVars, waitVars, kitVars>>
    \/ \E raised \in BOOLEAN : DrainSend(raised) /\ UNCHANGED <<trackerVars, listenerVars, clientVars, waitVars, kitVars>>

SpecProgress == Init /\ [][ProgressNext]_vars

\* the event loop thread is scheduled while it is inside process_messages
SpecProgressFair ==
    SpecProgress /\ WF_vars(DrainStep /\ UNCHANGED <<trackerVars, listenerVars, clientVars, waitVars, kitVars>>)


(********************** StreamingVisualizerServer ***************************)
\* the groups of the sections above
coreVars == <<serverVars, trackerVars, listenerVars, clientVars, waitVars, progressVars>>

\* the most items an "images" list carries
MaxImages == 2

\* a value that is no dict
IsDict(x) == ~Has(x, "py")

\* the items an "images" list is made of: no dict, a dict without data, and
\* images with and without an image id in their metadata
StreamItems ==
    { [py |-> "str"],
      [metadata |-> [image_id |-> "img-1"]],
      [data |-> "pixels"],
      [data |-> "pixels", metadata |-> [image_id |-> "img-1"]],
      [data |-> "pixels", metadata |-> [image_id |-> "img-2"]] }

\* the lists of at most n items
ItemLists(n) == UNION { [1..k -> StreamItems] : k \in 0..n }

\* the decoded payloads: no dict, a batch, and a single image with and
\* without data.  Every "images" value is a list.
StreamPayloads ==
    { [py |-> "list"] }
        \cup { [images |-> items] : items \in ItemLists(MaxImages) }
        \cup { [data |-> "pixels", metadata |-> [image_id |-> "img-1"]],
               [metadata |-> [image_id |-> "img-1"]] }

\* what the subclass's display_image does with an image: show it and return,
\* show it and call send_ack (whose send_json succeeds or raises), or raise
HookOutcomes == {"returns", "acks", "ack_fails", "raises"}

\* StreamingVisualizerServer.__init__ with _setup_ack_socket: the socket is
\* None when building the url or connecting raised
StreamNew(ackOk) ==
    /\ ~viewer.made
    /\ viewer' = [made |-> TRUE, ack_socket |-> ackOk, log |-> <<>>, raised |-> FALSE]

\* send_ack: the events it adds to the log.  Without an ack socket it
\* returns at once; an exception of send_json is logged and swallowed.
SendAck(ack_socket, image_id, status, sendRaises) ==
    IF ~ack_socket THEN <<>>
    ELSE << [op |-> "send_ack", image_id |-> image_id, status |-> status,
             pushed |-> ~sendRaises] >>

\* an item handle_data_message passes to display_image
HasImage(item) == IsDict(item) /\ Get(item, "data") # None

\* item.get("metadata", {}).get("image_id"), which the subclass reads
ImageIdOf(item) ==
    IF Has(item, "metadata") /\ Has(item.metadata, "image_id")
    THEN item.metadata.image_id ELSE None

\* the images handle_data_message passes to display_image, in order
ToShow(payload) ==
    IF ~IsDict(payload) THEN <<>>
    ELSE IF Has(payload, "images") THEN SelectSeq(payload.images, HasImage)
    ELSE IF Get(payload, "data") # None THEN <<payload>>
    ELSE <<>>

\* the event of one display_image call
Displayed(item, returned) ==
    [op |-> "display_image", image_id |-> ImageIdOf(item), returned |-> returned]

RECURSIVE DisplayAll(_, _, _, _)
\* the loop of handle_data_message over the images: display_image is called
\* for each, and an exception of it leaves the handler
DisplayAll(items, hooks, ack_socket, log) ==
    IF items = <<>> THEN [log |-> log, raised |-> FALSE]
    ELSE IF Head(hooks) = "raises"
         THEN [log |-> Append(log, Displayed(Head(items), FALSE)), raised |-> TRUE]
         ELSE DisplayAll(Tail(items), Tail(hooks), ack_socket,
                         Append(log, Displayed(Head(items), TRUE))
                             \o (IF Head(hooks) = "returns" THEN <<>>
                                 ELSE SendAck(ack_socket, ImageIdOf(Head(items)),
                                              "success", Head(hooks) = "ack_fails")))

\* StreamingVisualizerServer.handle_data_message
HandleDataMessage(payload, hooks) ==
    /\ viewer.made
    /\ \E done \in {DisplayAll(ToShow(payload), hooks, viewer.ack_socket, <<>>)} :
          viewer' = [viewer EXCEPT !.log = done.log, !.raised = done.raised]

StreamNext ==
    \/ \E ackOk \in BOOLEAN : StreamNew(ackOk) /\ UNCHANGED <<coreVars, transportVars, endpointVars, codecVars, batchVars>>
    \/ \E payload \in StreamPayloads :
         \E hooks \in [1..Len(ToShow(payload)) -> HookOutcomes] :
            HandleDataMessage(payload, hooks) /\ UNCHANGED <<coreVars, transportVars, endpointVars, codecVars, batchVars>>

SpecStream == Init /\ [][StreamNext]_vars

(************************* tracker batches **********************************)
\* The tracker calls again, with a record kept beside each tracker object of
\* the image ids register_sent was called with since the last clear() or
\* reset_for_new_batch() (now) and before it (before).
NewBatch == [now |-> {}, before |-> {}]

\* tracker.register_sent(image_id)
BatchRegisterSent(o, image_id) ==
    /\ TrackerRegisterSent(o, image_id, TRUE)
    /\ batch' = [batch EXCEPT ![o] = [now |-> @.now \cup {image_id},
                                      before |-> @.before \ {image_id}]]

\* tracker.mark_processed(image_id)
BatchMarkProcessed(o, image_id) ==
    /\ TrackerMarkProcessed(o, image_id)
    /\ UNCHANGED batch

\* tracker.clear()
BatchClear(o) ==
    /\ TrackerClear(o)
    /\ batch' = [batch EXCEPT ![o] = [now |-> {}, before |-> @.before \cup @.now]]

\* tracker.reset_for_new_batch()
BatchResetForNewBatch(o) ==
    /\ TrackerResetForNewBatch(o)
    /\ batch' = [batch EXCEPT ![o] = [now |-> {}, before |-> @.before \cup @.now]]

\* registry.get_or_create_tracker(viewer_port, viewer_type)
BatchGetOrCreateTracker(viewer_port) ==
    /\ GetOrCreateTracker(viewer_port, ViewerTypeOf(viewer_port), TRUE)
    /\ batch' = IF Len(trackers') > Len(trackers) THEN Append(batch, NewBatch) ELSE batch

BatchNext ==
    \/ \E o \in 1..MaxTrackers, x \in ImageIds : BatchRegisterSent(o, x) /\ UNCHANGED <<serverVars, listenerVars, clientVars, waitVars, progressVars, streamVars, transportVars, endpointVars, codecVars>>
    \/ \E o \in 1..MaxTrackers, x \in ImageIds : BatchMarkProcessed(o, x) /\ UNCHANGED <<serverVars, listenerVars, clientVars, waitVars, progressVars, streamVars, transportVars, endpointVars, codecVars>>
    \/ \E o \in 1..MaxTrackers : BatchClear(o) /\ UNCHANGED <<serverVars, listenerVars, clientVars, waitVars, progressVars, streamVars, transportVars, endpointVars, codecVars>>
    \/ \E o \in 1..MaxTrackers : BatchResetForNewBatch(o) /\ UNCHANGED <<serverVars, listenerVars, clientVars, waitVars, progressVars, streamVars, transportVars, endpointVars, codecVars>>
    \/ \E p \in ViewerPorts : BatchGetOrCreateTracker(p) /\ UNCHANGED <<serverVars, listenerVars, clientVars, waitVars, progressVars, streamVars, transportVars, endpointVars, codecVars>>

SpecBatch == Init /\ [][BatchNext]_vars

(***************************** transport.py *********************************)
\* the most polls one wait_for_server_ready makes in each of its loops
MaxProbes == 2

\* ZMQConfig(control_port_offset=..., ipc_socket_prefix=..., app_name=...)
ZMQConfig(control_port_offset, ipc_socket_prefix, app_name) ==
    [control_port_offset |-> control_port_offset, default_port |-> 7777,
     ipc_socket_dir |-> "ipc", ipc_socket_prefix |-> ipc_socket_prefix,
     ipc_socket_extension |-> ".sock", shared_ack_port |-> 7555,
     app_name |-> app_name]

\* transport._default_config
TransportDefaultConfig == ZMQConfig(1000, "zmq", "zmqruntime")

\* config=None
ConfigNone == [py |-> "None"]

\* config or _default_config
OrDefault(config) == IF Has(config, "py") THEN TransportDefaultConfig ELSE config

\* the config arguments, the data ports, the transport_mode arguments and
\* the platforms of the model; the control port of 5555 under the default
\* config is the data port 6555
TransportConfigs == { ConfigNone, ZMQConfig(2000, "test", "zmqruntime-test") }
TransportPorts == {5555, 6555}
TransportModeArgs == {None, "tcp", "ipc", "udp"}
Platforms == {"Linux", "Windows"}

\* how a call ended
Returned(value) == [kind |-> "return", value |-> value]
Raised(error) == [kind |-> "raise", error |-> error]

\* get_default_transport_mode
GetDefaultTransportMode == IF platform_system = "Windows" THEN "tcp" ELSE "ipc"

\* coerce_transport_mode, for None and for strings
CoerceTransportMode(transport_mode) ==
    IF transport_mode \in {"tcp", "ipc"} THEN transport_mode ELSE None

\* coerce_transport_mode(transport_mode) or get_default_transport_mode()
ModeOrDefault(transport_mode) ==
    IF CoerceTransportMode(transport_mode) # None
    THEN CoerceTransportMode(transport_mode) ELSE GetDefaultTransportMode

\* get_ipc_socket_path: None on Windows
GetIpcSocketPath(port, config) ==
    IF platform_system = "Windows" THEN None
    ELSE "~/." \o OrDefault(config).app_name \o "/" \o OrDefault(config).ipc_socket_dir
            \o "/" \o OrDefault(config).ipc_socket_prefix \o "-" \o ToString(port)
            \o OrDefault(config).ipc_socket_extension

\* get_zmq_transport_url, called with a coerced mode
GetZmqTransportUrl(port, host, mode, config) ==
    IF mode = "ipc"
    THEN IF platform_system = "Windows" THEN Raised("ValueError")
         ELSE IF GetIpcSocketPath(port, config) = None THEN Raised("ValueError")
         ELSE Returned("ipc://" \o GetIpcSocketPath(port, config))
    ELSE IF mode = "tcp" THEN Returned("tcp://" \o host \o ":" \o ToString(port))
    ELSE Raised("ValueError")

\* get_control_port
GetControlPort(port, config) == port + OrDefault(config).control_port_offset

\* get_control_url
GetControlUrl(port, transport_mode, host, config) ==
    GetZmqTransportUrl(GetControlPort(port, config), host,
                       ModeOrDefault(transport_mode), config)

\* socket_path.unlink() leaving the file in place
Unlink_keeps_file(files, path) == files

\* socket_path.unlink()
Unlink(files, path) == files \ {path}

\* what sock.bind((host, port)) does in is_port_in_use
BindOutcomes == {"bound", "OSError", "OverflowError"}

\* is_port_in_use: the socket file for IPC, a trial bind for TCP
IsPortInUse(port, transport_mode, host, config, bind) ==
    IF ModeOrDefault(transport_mode) = "ipc"
    THEN Returned(IF GetIpcSocketPath(port, config) # None
                  THEN GetIpcSocketPath(port, config) \in ipc_files ELSE FALSE)
    ELSE IF bind = "bound" THEN Returned(FALSE)
    ELSE IF bind = "OSError" THEN Returned(TRUE)
    ELSE Returned(FALSE)

\* what the REQ socket of ping_control_port meets: connect or recv raising,
\* bytes pickle cannot load, a reply that is no dict, and replies
PingReplies ==
    { [raises |-> "connect"], [raises |-> "recv"], [raises |-> "pickle.loads"],
      [raises |-> "AttributeError"],
      [type |-> "status"], [type |-> "pong"],
      [type |-> "pong", ready |-> FALSE], [type |-> "pong", ready |-> TRUE] }

\* bool(response.get("ready"))
ReadyBool(reply) == IF Has(reply, "ready") THEN reply.ready ELSE FALSE

\* ping_control_port: the url is built before the try block
PingControlPort(port, transport_mode, host, config, require_ready, reply) ==
    IF GetControlUrl(port, transport_mode, host, config).kind = "raise"
    THEN GetControlUrl(port, transport_mode, host, config)
    ELSE IF Has(reply, "raises") THEN Returned(FALSE)
    ELSE IF Get(reply, "type") # "pong" THEN Returned(FALSE)
    ELSE IF require_ready THEN Returned(ReadyBool(reply))
    ELSE Returned(TRUE)

\* a wait_for_server_ready call is inside one of its loops
InWait == transport_call.op = "wait_for_server_ready" /\ transport_call.pc # "done"

\* the process runs on platform p
Boot(p) ==
    /\ transport_call = NoTransportCall
    /\ ipc_files = {}
    /\ platform_system = "Linux"
    /\ p # platform_system
    /\ platform_system' = p
    /\ transport_call' = [op |-> "boot"]
    /\ UNCHANGED ipc_files

\* a server binds an ipc:// endpoint of port, which creates the socket file
BindIpc(port, config) ==
    /\ ~InWait
    /\ GetZmqTransportUrl(port, "*", "ipc", config).kind = "return"
    /\ ipc_files' = ipc_files \cup {GetIpcSocketPath(port, config)}
    /\ transport_call' = [op |-> "bind", port |-> port, config |-> config]
    /\ UNCHANGED platform_system

\* remove_ipc_socket(port, config)
RemoveIpcSocket(port, config) ==
    /\ ~InWait
    /\ \E socket_path \in {GetIpcSocketPath(port, config)} :
          IF socket_path # None /\ socket_path \in ipc_files
          THEN /\ ipc_files' = Unlink(ipc_files, socket_path)
               /\ transport_call' = [op |-> "remove_ipc_socket", port |-> port,
                                     config |-> config, outcome |-> Returned(TRUE)]
          ELSE /\ transport_call' = [op |-> "remove_ipc_socket", port |-> port,
                                     config |-> config, outcome |-> Returned(FALSE)]
               /\ UNCHANGED ipc_files
    /\ UNCHANGED platform_system

\* is_port_in_use(port, transport_mode, config=config)
CallIsPortInUse(port, transport_mode, config, bind) ==
    /\ ~InWait
    /\ transport_call' = [op |-> "is_port_in_use", port |-> port,
                          transport_mode |-> transport_mode, config |-> config,
                          outcome |-> IsPortInUse(port, transport_mode, "localhost",
                                                  config, bind)]
    /\ UNCHANGED <<platform_system, ipc_files>>

\* ping_control_port(port, transport_mode, config=config, require_ready=...)
CallPingControlPort(port, transport_mode, config, require_ready, reply) ==
    /\ ~InWait
    /\ transport_call' = [op |-> "ping_control_port", port |-> port,
                          transport_mode |-> transport_mode, config |-> config,
                          outcome |-> PingControlPort(port, transport_mode, "localhost",
                                                      config, require_ready, reply)]
    /\ UNCHANGED <<platform_system, ipc_files>>

\* wait_for_server_ready(port, transport_mode, config=config, ...) entered
WaitStart(port, transport_mode, config, require_ready) ==
    /\ ~InWait
    /\ transport_call' = [op |-> "wait_for_server_ready", pc |-> "ports", port |-> port,
                          transport_mode |-> transport_mode, config |-> config,
                          require_ready |-> require_ready, polls |-> 0,
                          outcome |-> [kind |-> "running"]]
    /\ UNCHANGED <<platform_system, ipc_files>>

\* one test of the first loop: past the timeout the call returns False,
\* else both ports are probed and the loop is left when both are in use
WaitPorts(timedOut, bind, control_bind) ==
    /\ InWait
    /\ transport_call.pc = "ports"
    /\ IF timedOut
       THEN transport_call' = [transport_call EXCEPT !.pc = "done",
                                                     !.outcome = Returned(FALSE)]
       ELSE /\ transport_call.polls < MaxProbes
            /\ IF /\ IsPortInUse(transport_call.port, transport_call.transport_mode,
                                 "localhost", transport_call.config, bind).value
                  /\ IsPortInUse(GetControlPort(transport_call.port, transport_call.config),
                                 transport_call.transport_mode, "localhost",
                                 transport_call.config, control_bind).value
               THEN transport_call' = [transport_call EXCEPT !.pc = "ping", !.polls = 0]
               ELSE transport_call' = [transport_call EXCEPT !.polls = @ + 1]
    /\ UNCHANGED <<platform_system, ipc_files>>

\* one test of the second loop: past the timeout the call returns False,
\* else the control port is pinged and a true answer is returned
WaitPing(timedOut, reply) ==
    /\ InWait
    /\ transport_call.pc = "ping"
    /\ IF timedOut
       THEN transport_call' = [transport_call EXCEPT !.pc = "done",
                                                     !.outcome = Returned(FALSE)]
       ELSE /\ transport_call.polls < MaxProbes
            /\ \E pinged \in {PingControlPort(transport_call.port,
                                              transport_call.transport_mode, "localhost",
                                              transport_call.config,
                                              transport_call.require_ready, reply)} :
                  IF pinged.kind = "raise"
                  THEN transport_call' = [transport_call EXCEPT !.pc = "done",
                                                                !.outcome = pinged]
                  ELSE IF pinged.value
                  THEN transport_call' = [transport_call EXCEPT !.pc = "done",
                                                                !.outcome = Returned(TRUE)]
                  ELSE transport_call' = [transport_call EXCEPT !.polls = @ + 1]
    /\ UNCHANGED <<platform_system, ipc_files>>

\* the socket files and their removal
TransportNext ==
    \/ \E p \in Platforms : Boot(p) /\ UNCHANGED <<coreVars, streamVars, endpointVars, codecVars, batchVars>>
    \/ \E port \in TransportPorts, config \in TransportConfigs : BindIpc(port, config) /\ UNCHANGED <<coreVars, streamVars, endpointVars, codecVars, batchVars>>
    \/ \E port \in TransportPorts, config \in TransportConfigs : RemoveIpcSocket(port, config) /\ UNCHANGED <<coreVars, streamVars, endpointVars, codecVars, batchVars>>
    \/ \E port \in TransportPorts, mode \in TransportModeArgs, config \in TransportConfigs, bind \in BindOutcomes :
          CallIsPortInUse(port, mode, config, bind) /\ UNCHANGED <<coreVars, streamVars, endpointVars, codecVars, batchVars>>

SpecTransport == Init /\ [][TransportNext]_vars

\* the probes
ProbeNext ==
    \/ \E p \in Platforms : Boot(p) /\ UNCHANGED <<coreVars, streamVars, endpointVars, codecVars, batchVars>>
    \/ \E port \in TransportPorts, config \in TransportConfigs : BindIpc(port, config) /\ UNCHANGED <<coreVars, streamVars, endpointVars, codecVars, batchVars>>
    \/ \E port \in TransportPorts, mode \in TransportModeArgs, config \in TransportConfigs, bind \in BindOutcomes :
          CallIsPortInUse(port, mode, config, bind) /\ UNCHANGED <<coreVars, streamVars, endpointVars, codecVars, batchVars>>
    \/ \E port \in TransportPorts, mode \in TransportModeArgs, config \in TransportConfigs, require_ready \in BOOLEAN, reply \in PingReplies :
          CallPingControlPort(port, mode, config, require_ready, reply) /\ UNCHANGED <<coreVars, streamVars, endpointVars, codecVars, batchVars>>
    \/ \E port \in TransportPorts, mode \in TransportModeArgs, config \in TransportConfigs, require_ready \in BOOLEAN :
          WaitStart(port, mode, config, require_ready) /\ UNCHANGED <<coreVars, streamVars, endpointVars, codecVars, batchVars>>
    \/ \E timedOut \in BOOLEAN, bind \in BindOutcomes, control_bind \in BindOutcomes :
          WaitPorts(timedOut, bind, control_bind) /\ UNCHANGED <<coreVars, streamVars, endpointVars, codecVars, batchVars>>
    \/ \E timedOut \in BOOLEAN, reply \in PingReplies :
          WaitPing(timedOut, reply) /\ UNCHANGED <<coreVars, streamVars, endpointVars, codecVars, batchVars>>

SpecProbe == Init /\ [][ProbeNext]_vars

(*************************** control ports **********************************)
\* the most server and client objects constructed
MaxEndpoints == 2

\* the configs objects and static methods are given: None, a config with
\* another offset and the test config
EndpointConfigs == TransportConfigs \cup { ZMQConfig(1, "zmq", "zmqruntime") }

\* the control port computed with the default offset whatever the config
ControlPortOf_default_offset(port, config) == port + 1000

\* port + config.control_port_offset, as ZMQServer.__init__,
\* ZMQClient.__init__, _try_connect_to_existing, scan_servers and
\* kill_server_on_port compute it on the config they hold
ControlPortOf(port, config) == port + config.control_port_offset

\* ZMQServer.__init__
NewZMQServer(port, config) ==
    [kind |-> "server", config |-> OrDefault(config), port |-> port,
     control_port |-> ControlPortOf(port, OrDefault(config))]

\* ZMQClient.__init__
NewZMQClient(port, config) ==
    [kind |-> "client", config |-> OrDefault(config), port |-> port,
     control_port |-> ControlPortOf(port, OrDefault(config))]

\* ZMQServer(port, config=config)
ServerNew(port, config) ==
    /\ Len(endpoints) < MaxEndpoints
    /\ endpoints' = Append(endpoints, NewZMQServer(port, config))
    /\ transport_call' = [op |-> "ZMQServer", port |-> port, config |-> config,
                          control_port |-> NewZMQServer(port, config).control_port]

\* ZMQClient(port, config=config)
EndpointClientNew(port, config) ==
    /\ Len(endpoints) < MaxEndpoints
    /\ endpoints' = Append(endpoints, NewZMQClient(port, config))
    /\ transport_call' = [op |-> "ZMQClient", port |-> port, config |-> config,
                          control_port |-> NewZMQClient(port, config).control_port]

\* ZMQServer.start binding, and ExecutionClient._send_control_request and
\* get_server_info connecting to, the endpoint of self.control_port
UseControlPort(o) ==
    /\ o \in 1..Len(endpoints)
    /\ transport_call' = [op |-> "self.control_port", port |-> endpoints[o].port,
                          config |-> endpoints[o].config,
                          control_port |-> endpoints[o].control_port,
                          outcome |-> GetZmqTransportUrl(endpoints[o].control_port,
                                                         "localhost", "tcp",
                                                         endpoints[o].config)]
    /\ UNCHANGED endpoints

\* ZMQClient._try_connect_to_existing(self.port): the handshake
TryConnectToExisting(o) ==
    /\ o \in 1..Len(endpoints)
    /\ endpoints[o].kind = "client"
    /\ transport_call' = [op |-> "_try_connect_to_existing", port |-> endpoints[o].port,
                          config |-> endpoints[o].config,
                          control_port |-> ControlPortOf(endpoints[o].port,
                                                         endpoints[o].config),
                          outcome |-> GetZmqTransportUrl(
                                          ControlPortOf(endpoints[o].port,
                                                        endpoints[o].config),
                                          "localhost", "tcp", endpoints[o].config)]
    /\ UNCHANGED endpoints

\* ZMQClient.scan_servers([port], config=config): the endpoint pinged and
\* the control_port written into the entry
ScanServers(port, config) ==
    /\ transport_call' = [op |-> "scan_servers", port |-> port, config |-> config,
                          control_port |-> ControlPortOf(port, OrDefault(config)),
                          outcome |-> GetZmqTransportUrl(
                                          ControlPortOf(port, OrDefault(config)),
                                          "localhost", "tcp", OrDefault(config))]
    /\ UNCHANGED endpoints

\* ZMQClient.kill_server_on_port(port, config=config)
KillServerOnPort(port, config) ==
    /\ transport_call' = [op |-> "kill_server_on_port", port |-> port, config |-> config,
                          control_port |-> ControlPortOf(port, OrDefault(config)),
                          outcome |-> GetZmqTransportUrl(
                                          ControlPortOf(port, OrDefault(config)),
                                          "localhost", "tcp", OrDefault(config))]
    /\ UNCHANGED endpoints

\* get_control_port(port, config)
CallGetControlPort(port, config) ==
    /\ transport_call' = [op |-> "get_control_port", port |-> port, config |-> config,
                          control_port |-> GetControlPort(port, config)]
    /\ UNCHANGED endpoints

\* get_control_url(port, TransportMode.TCP, config=config)
CallGetControlUrl(port, config) ==
    /\ transport_call' = [op |-> "get_control_url", port |-> port, config |-> config,
                          outcome |-> GetControlUrl(port, "tcp", "localhost", config)]
    /\ UNCHANGED endpoints

PortsNext ==
    \/ \E port \in TransportPorts, config \in EndpointConfigs : ServerNew(port, config) /\ UNCHANGED <<coreVars, streamVars, platform_system, ipc_files, codecVars, batchVars>>
    \/ \E port \in TransportPorts, config \in EndpointConfigs : EndpointClientNew(port, config) /\ UNCHANGED <<coreVars, streamVars, platform_system, ipc_files, codecVars, batchVars>>
    \/ \E o \in 1..MaxEndpoints : UseControlPort(o) /\ UNCHANGED <<coreVars, streamVars, platform_system, ipc_files, codecVars, batchVars>>
    \/ \E o \in 1..MaxEndpoints : TryConnectToExisting(o) /\ UNCHANGED <<coreVars, streamVars, platform_system, ipc_files, codecVars, batchVars>>
    \/ \E port \in TransportPorts, config \in EndpointConfigs : ScanServers(port, config) /\ UNCHANGED <<coreVars, streamVars, platform_system, ipc_files, codecVars, batchVars>>
    \/ \E port \in TransportPorts, config \in EndpointConfigs : KillServerOnPort(port, config) /\ UNCHANGED <<coreVars, streamVars, platform_system, ipc_files, codecVars, batchVars>>
    \/ \E port \in TransportPorts, config \in EndpointConfigs : CallGetControlPort(port, config) /\ UNCHANGED <<coreVars, streamVars, platform_system, ipc_files, codecVars, batchVars>>
    \/ \E port \in TransportPorts, config \in EndpointConfigs : CallGetControlUrl(port, config) /\ UNCHANGED <<coreVars, streamVars, platform_system, ipc_files, codecVars, batchVars>>

SpecPorts == Init /\ [][PortsNext]_vars

(************************* message round trip *******************************)
\* the message dataclasses
MessageClasses ==
    {"ExecuteRequest", "ExecuteResponse", "StatusRequest", "CancelRequest",
     "PongResponse", "ProgressUpdate", "ImageAck", "ROIMessage", "ShapesMessage"}

\* the messages of each class the model converts; a field left at its
\* default None holds None.  status of ExecuteResponse is the value of its
\* ResponseType, and values the codec only copies are tokens.
MessagesOf(class) ==
    CASE class = "ExecuteRequest" ->
            [class : {class}, plate_id : {"plate-1"}, pipeline_code : {"print('hi')"},
             config_params : {None, "{'a': 1}"}, config_code : {None, "cfg"},
             pipeline_config_code : {None, "pcfg"}, client_address : {None, "127.0.0.1"}]
      [] class = "ExecuteResponse" ->
            [class : {class}, status : {"accepted", "error"},
             execution_id : {None, Uuid(1)}, message : {None, "queued"},
             error : {None, "boom"}]
      [] class = "StatusRequest" -> [class : {class}, execution_id : {None, Uuid(1)}]
      [] class = "CancelRequest" -> [class : {class}, execution_id : {"", Uuid(1)}]
      [] class = "PongResponse" ->
            [class : {class}, port : {5555}, control_port : {6555}, ready : BOOLEAN,
             server : {"Test"}, log_file_path : {None, "/tmp/log"},
             active_executions : {None, "1"}, running_executions : {None, "[]"},
             workers : {None, "[]"}, uptime : {None, "1.5"}]
      [] class = "ProgressUpdate" ->
            [class : {class}, well_id : {"A1"}, step : {"step-1"},
             status : {"started", "done"}, timestamp : {1, 2}]
      [] class = "ImageAck" ->
            [class : {class}, image_id : {"img-1"}, viewer_port : {5555},
             viewer_type : {"napari"}, status : {"success", "error", None},
             timestamp : {None, "1.5"}, error : {None, "boom"}]
      [] class = "ROIMessage" ->
            [class : {class}, rois : {"[]", "[roi]"}, layer_name : {"ROIs", "cells", None}]
      [] class = "ShapesMessage" ->
            [class : {class}, shapes : {"[]", "[shape]"}, layer_name : {"ROIs", "cells", None}]

\* the "type" entry to_dict writes; ExecuteResponse writes none
TypeKey(class) == IF class = "ExecuteResponse" THEN {} ELSE {"type"}

TypeTag(class) ==
    CASE class = "ExecuteRequest" -> "execute"
      [] class = "StatusRequest" -> "status"
      [] class = "CancelRequest" -> "cancel"
      [] class = "PongResponse" -> "pong"
      [] class = "ProgressUpdate" -> "progress"
      [] class = "ImageAck" -> "image_ack"
      [] class = "ROIMessage" -> "rois"
      [] class = "ShapesMessage" -> "shapes"

\* the fields to_dict always writes
AlwaysKeys(class) ==
    CASE class = "ExecuteRequest" -> {"plate_id", "pipeline_code"}
      [] class = "ExecuteResponse" -> {"status"}
      [] class = "StatusRequest" -> {}
      [] class = "CancelRequest" -> {"execution_id"}
      [] class = "PongResponse" -> {"port", "control_port", "ready", "server"}
      [] class = "ProgressUpdate" -> {"well_id", "step", "status", "timestamp"}
      [] class = "ImageAck" -> {"image_id", "viewer_port", "viewer_type", "status"}
      [] class = "ROIMessage" -> {"rois", "layer_name"}
      [] class = "ShapesMessage" -> {"shapes", "layer_name"}

\* the fields to_dict writes when they are not None
OptionalKeys(class) ==
    CASE class = "ExecuteRequest" ->
            {"config_params", "config_code", "pipeline_config_code", "client_address"}
      [] class = "ExecuteResponse" -> {"execution_id", "message", "error"}
      [] class = "StatusRequest" -> {"execution_id"}
      [] class = "PongResponse" ->
            {"log_file_path", "active_executions", "running_executions", "workers", "uptime"}
      [] class = "ImageAck" -> {"timestamp", "error"}
      [] OTHER -> {}

\* m.to_dict()
ToDict(m) ==
    [k \in TypeKey(m.class) \cup AlwaysKeys(m.class)
            \cup { f \in OptionalKeys(m.class) : m[f] # None } |->
        IF k = "type" THEN TypeTag(m.class) ELSE m[k]]

\* the classes that define from_dict
HasFromDict ==
    {"ExecuteRequest", "StatusRequest", "CancelRequest", "ImageAck", "ROIMessage",
     "ShapesMessage"}

\* the keys from_dict reads with data[...]
RequiredKeys(class) ==
    CASE class = "ExecuteRequest" -> {"plate_id", "pipeline_code"}
      [] class = "CancelRequest" -> {"execution_id"}
      [] class = "ImageAck" -> {"image_id", "viewer_port", "viewer_type"}
      [] class = "ROIMessage" -> {"rois"}
      [] class = "ShapesMessage" -> {"shapes"}
      [] OTHER -> {}

\* the default of data.get(key, default)
DefaultOf(class, key) ==
    IF class = "ImageAck" /\ key = "status" THEN "success"
    ELSE IF class \in {"ROIMessage", "ShapesMessage"} /\ key = "layer_name" THEN "ROIs"
    ELSE None

\* cls.from_dict(data): AttributeError where the class has no from_dict,
\* KeyError for a missing required key
FromDict(class, data) ==
    IF class \notin HasFromDict THEN Raised("AttributeError")
    ELSE IF \E k \in RequiredKeys(class) : ~Has(data, k) THEN Raised("KeyError")
    ELSE Returned([f \in {"class"} \cup AlwaysKeys(class) \cup OptionalKeys(class) |->
                      IF f = "class" THEN class
                      ELSE IF Has(data, f) THEN data[f] ELSE DefaultOf(class, f)])

\* type(m).from_dict(m.to_dict())
RoundTrip(m) ==
    /\ codec' = [op |-> "round_trip", message |-> m, dict |-> ToDict(m),
                 back |-> FromDict(m.class, ToDict(m))]

CodecNext ==
    \/ \E class \in MessageClasses : \E m \in MessagesOf(class) :
          RoundTrip(m) /\ UNCHANGED <<coreVars, streamVars, transportVars, endpointVars, batchVars>>

SpecCodec == Init /\ [][CodecNext]_vars

(***************************** claims **************************************)
Range(seq) == { seq[i] : i \in 1..Len(seq) }

\* the position of an id in acceptance order
AcceptIndex(id) == CHOOSE n \in 1..Cardinality(DOMAIN active_executions) : Uuid(n) = id

\* C1: the status of a record only moves forward along queued -> running ->
\* {complete, failed, cancelled}: a terminal status never changes again and
\* running never returns to queued.
C1_StatusMonotonic ==
    [][\A id \in DOMAIN active_executions :
          /\ active_executions[id].status \in TerminalStatuses
                => active_executions'[id].status = active_executions[id].status
          /\ active_executions[id].status = "running"
                => active_executions'[id].status # "queued"]_vars

\* C2: in every reachable state at most one execution record has status
\* running.
C2_AtMostOneRunning ==
    Cardinality({ id \in DOMAIN active_executions :
                    active_executions[id].status = "running" }) <= 1

\* C3: execute_task is invoked in acceptance order, and one invocation has
\* returned before the next one starts.
C3_FifoExecution ==
    /\ \A i, j \in 1..Len(execute_log) :
          i < j => AcceptIndex(execute_log[i]) < AcceptIndex(execute_log[j])
    /\ Cardinality({ w \in Workers : worker[w].pc = "task" }) <= 1

\* C4: an execution a handler cancelled while its status was queued is never
\* passed to execute_task and stays cancelled.
C4_CancelledQueuedNeverRuns ==
    \A id \in cancelled_queued :
        /\ id \notin Range(execute_log)
        /\ active_executions[id].status = "cancelled"

\* C5: every request received on the REP socket is answered by one reply
\* before the next receive.
C5_ReplyEveryRequest ==
    /\ request # NoRequest => response # NoReply
    /\ ~awaiting_send

\* C6: end_time is set exactly when the status of the record is terminal.
C6_EndTimeIffTerminal ==
    \A id \in DOMAIN active_executions :
        (active_executions[id].end_time # NoTime)
            <=> (active_executions[id].status \in TerminalStatuses)


\* a reply with status error
IsError(resp) == Has(resp, "status") /\ resp.status = "error"

\* a mapping request of the given type
IsRequest(req, type) ==
    req.kind = "mapping" /\ Has(req.data, "type") /\ req.data["type"] = type

\* an execute request with every required field: plate_id and pipeline_code
\* non-empty and config_params or config_code given
IsValidExecute(req) ==
    /\ IsRequest(req, "execute")
    /\ Has(req.data, "plate_id") /\ req.data["plate_id"] \notin {"", None}
    /\ Has(req.data, "pipeline_code") /\ req.data["pipeline_code"] \notin {"", None}
    /\ \/ Has(req.data, "config_params") /\ req.data["config_params"] # None
       \/ Has(req.data, "config_code") /\ req.data["config_code"] # None

\* C7: a valid execute request is accepted whatever is queued or running: one
\* new record under an id no record had, status queued, start_time, end_time
\* and error null, one new entry at the end of the queue, the other records
\* untouched, and the reply is accepted with that id.
C7_ExecuteAccepted ==
    [][IsValidExecute(request') =>
          /\ Has(response', "status") /\ response'.status = "accepted"
          /\ Has(response', "execution_id")
          /\ response'.execution_id \notin DOMAIN active_executions
          /\ DOMAIN active_executions' = DOMAIN active_executions \cup {response'.execution_id}
          /\ \A id \in DOMAIN active_executions : active_executions'[id] = active_executions[id]
          /\ active_executions'[response'.execution_id].execution_id = response'.execution_id
          /\ active_executions'[response'.execution_id].status = "queued"
          /\ active_executions'[response'.execution_id].start_time = NoTime
          /\ active_executions'[response'.execution_id].end_time = NoTime
          /\ active_executions'[response'.execution_id].error = None
          /\ execution_queue' = Append(execution_queue, response'.execution_id)]_vars

\* an execute request was accepted while another execution was running
C7_Witness ==
    /\ IsValidExecute(request)
    /\ Has(response, "status") /\ response.status = "accepted"
    /\ \E id \in DOMAIN active_executions :
          id # response.execution_id /\ active_executions[id].status = "running"

\* C8: a control turn answered with an error response changes nothing of the
\* server: records, queue, running and ready flags, socket, worker threads;
\* and the socket is ready for the next request.
C8_ErrorLeavesState ==
    [][(request' # NoRequest /\ IsError(response')) =>
          /\ UNCHANGED <<active_executions, execution_queue, running, ready,
                         control_socket, server_start_time, queue_worker_thread,
                         worker, caller, clock>>
          /\ running'
          /\ ~awaiting_send']_vars

\* a cancel for an unknown id was answered with an error while a record was
\* queued or running
C8_Witness ==
    /\ IsRequest(request, "cancel")
    /\ Get(request.data, "execution_id") = UnknownId
    /\ IsError(response)
    /\ \E id \in DOMAIN active_executions : IsActive(active_executions[id])

\* C9 as stated: the request {type: execute, plate_id: ""} is answered with
\* the error "Missing required field: plate_id".
C9_E2PlateIdError ==
    request = Mapping(E2Msg)
        => response = ErrorResponse("Missing required field: plate_id")

\* C9 amended: the request {type: execute, plate_id: ""} is answered with the
\* error "Missing field: 'pipeline_code'"; an execute request with an empty
\* plate_id that carries pipeline_code is answered with the error "Missing
\* required field: plate_id".
C9_E2MissingFieldError ==
    /\ request = Mapping(E2Msg)
          => response = ErrorResponse("Missing field: 'pipeline_code'")
    /\ (/\ IsRequest(request, "execute")
        /\ Has(request.data, "plate_id") /\ request.data["plate_id"] = ""
        /\ Has(request.data, "pipeline_code"))
          => response = ErrorResponse("Missing required field: plate_id")

\* the request of scenario E2 was answered
C9_Witness ==
    request = Mapping(E2Msg) /\ IsError(response)

\* C10: a cancel request naming a known execution id turns every queued or
\* running record into cancelled with end_time set and leaves every
\* complete, failed or cancelled record as it was.
C10_CancelFrame ==
    [][(/\ IsRequest(request', "cancel")
        /\ Get(request'.data, "execution_id") \in DOMAIN active_executions) =>
          /\ DOMAIN active_executions' = DOMAIN active_executions
          /\ \A id \in DOMAIN active_executions :
                IF active_executions[id].status \in {"queued", "running"}
                THEN /\ active_executions'[id].status = "cancelled"
                     /\ active_executions'[id].end_time # NoTime
                ELSE active_executions'[id] = active_executions[id]]_vars

\* a cancel naming a complete record cancelled another record in this turn
C10_Witness ==
    /\ IsRequest(request, "cancel")
    /\ \E done, live \in DOMAIN active_executions :
          /\ Get(request.data, "execution_id") = done
          /\ active_executions[done].status = "complete"
          /\ active_executions[live].status = "cancelled"
          /\ active_executions[live].end_time = clock - 1

\* C11: shutdown and force_shutdown both cancel every queued or running
\* record and are answered with a shutdown_ack in the same turn; after
\* shutdown the server still runs with its worker thread as it was, after
\* force_shutdown the running flag is false.
C11_ShutdownVsForce ==
    [][(IsRequest(request', "shutdown") \/ IsRequest(request', "force_shutdown")) =>
          /\ Has(response', "type") /\ response'.type = "shutdown_ack"
          /\ ~awaiting_send'
          /\ DOMAIN active_executions' = DOMAIN active_executions
          /\ \A id \in DOMAIN active_executions :
                IF IsActive(active_executions[id])
                THEN active_executions'[id].status = "cancelled"
                ELSE active_executions'[id] = active_executions[id]
          /\ UNCHANGED <<queue_worker_thread, worker, control_socket>>
          /\ IsRequest(request', "shutdown") => running'
          /\ IsRequest(request', "force_shutdown") => ~running']_vars

\* a shutdown request cancelled a record and left the server running with a
\* live worker thread
C11_Witness ==
    /\ IsRequest(request, "shutdown")
    /\ response.type = "shutdown_ack"
    /\ running
    /\ \E w \in Workers : worker[w].pc = "get"
    /\ \E id \in DOMAIN active_executions :
          active_executions[id].status = "cancelled" /\ active_executions[id].end_time = clock - 1

\* the fields _handle_status reports of a record
StatusProjection(r) ==
    [execution_id |-> r.execution_id, plate_id |-> r.plate_id, status |-> r.status,
     start_time |-> r.start_time, end_time |-> r.end_time, error |-> r.error,
     results_summary |-> r.results_summary]

\* C12: no step removes an execution record, and a status request naming an
\* accepted id is answered with the projection of its record, never with an
\* error.
C12_RecordsKept ==
    [][/\ DOMAIN active_executions \subseteq DOMAIN active_executions'
       /\ (/\ IsRequest(request', "status")
           /\ Get(request'.data, "execution_id") \in DOMAIN active_executions) =>
              /\ response' = [status |-> "ok",
                              execution |-> StatusProjection(
                                  active_executions[Get(request'.data, "execution_id")])]
              /\ active_executions' = active_executions]_vars

\* a status request naming a record that reached a terminal status was
\* answered with that record
C12_Witness ==
    /\ IsRequest(request, "status")
    /\ Has(response, "execution")
    /\ response.execution.status \in TerminalStatuses
    /\ response.execution.execution_id \in DOMAIN active_executions


\* C13: total_processed never exceeds total_sent, for every tracker.
C13_ProcessedAtMostSent ==
    \A o \in TrackerObjects : trackers[o].total_processed <= trackers[o].total_sent

\* an ack for an image that was never registered was counted
C13_Witness ==
    /\ call.op = "mark_processed"
    /\ trackers[call.tracker].total_processed = trackers[call.tracker].total_sent
    /\ trackers[call.tracker].total_sent = 2
    /\ trackers[call.tracker].pending = {}

\* C14: no image id is in the pending map and in the processed set of the
\* same tracker.
C14_PendingProcessedDisjoint ==
    \A o \in TrackerObjects : trackers[o].pending \cap trackers[o].processed = {}

\* C15: after mark_processed(x), x is processed and not pending; a pending x
\* adds one to total_processed only; an x neither pending nor processed adds
\* one to total_sent and to total_processed; an x processed and not pending
\* changes nothing.
C15_MarkProcessedEffect ==
    [][call'.op = "mark_processed" =>
          \E t \in {trackers[call'.tracker]}, t2 \in {trackers'[call'.tracker]},
             x \in {call'.image_id} :
             /\ x \in t2.processed /\ x \notin t2.pending
             /\ x \in t.pending =>
                   /\ t2.total_processed = t.total_processed + 1
                   /\ t2.total_sent = t.total_sent
             /\ (x \notin t.pending /\ x \notin t.processed) =>
                   /\ t2.total_processed = t.total_processed + 1
                   /\ t2.total_sent = t.total_sent + 1
             /\ (x \notin t.pending /\ x \in t.processed) => t2 = t]_vars

\* mark_processed acted on an image that was processed and registered again
C15_Witness ==
    /\ call.op = "mark_processed"
    /\ trackers[call.tracker].total_processed = 2
    /\ trackers[call.tracker].total_sent = 2
    /\ Cardinality(trackers[call.tracker].processed) = 1

\* C16: get_pending_count() equals sent - processed of get_progress().
C16_PendingIsSentMinusProcessed ==
    \A o \in TrackerObjects :
        GetPendingCount(trackers[o]) = GetProgress(trackers[o])[2] - GetProgress(trackers[o])[1]

C18_AckRouted ==
    [][\A t \in ListenerThreads :
          /\ (loop[t].pc = "dispatch" /\ Head(loop[t].todo) = "_mark_processed") =>
                (loop'[t] # loop[t] =>
                   /\ loop'[t].target = IF loop[t].ack.viewer_port \in DOMAIN registry
                                        THEN registry[loop[t].ack.viewer_port]
                                        ELSE NoTracker
                   /\ loop'[t].marked = 0)
          /\ (loop[t].pc = "mark" /\ loop'[t] # loop[t]) =>
                /\ trackers[loop[t].target].viewer_port = loop[t].ack.viewer_port
                /\ trackers' = [trackers EXCEPT ![loop[t].target] =
                                   MarkProcessed(@, loop[t].ack.image_id)]
                /\ loop'[t].marked = 1
          /\ (loop[t].pc # "mark" /\ loop'[t] # loop[t]) => trackers' = trackers
          /\ loop'[t] # loop[t] => registry' = registry
          /\ (loop[t].pc \in {"dispatch", "mark"} /\ loop'[t].pc = "while") =>
                (loop'[t].marked = IF loop'[t].target = NoTracker THEN 0 ELSE 1)]_vars

\* an ack for one of two registered viewers was marked on its tracker and
\* the image the other tracker waits for is still pending
C18_Witness ==
    /\ call.op = "mark_processed"
    /\ \E t \in ListenerThreads :
          /\ loop[t].marked = 1
          /\ loop[t].ack.image_id \in trackers[loop[t].target].processed
          /\ \E o \in TrackerObjects :
                /\ o # loop[t].target
                /\ o \in { registry[p] : p \in DOMAIN registry }
                /\ loop[t].ack.image_id \in trackers[o].pending

\* C19: at most one listener loop thread exists at any time.
C19_OneListenerLoop ==
    Cardinality({ t \in ListenerThreads : LoopAlive(t) }) <= 1

\* C20: a listener loop that is running when stop() clears the running flag
\* eventually leaves the loop and closes its socket and context.
C20_StoppedLoopExits ==
    \A t \in ListenerThreads :
        (LoopAlive(t) /\ ~listener_running) ~> (loop[t].pc = "closed")


\* C21: for each ack the callbacks invoked are those registered when its
\* dispatch began, each once and in registration order, whether or not one
\* of them raises; the loop goes on after the dispatch; a callback registered
\* later is among those of the next ack.
C21_CallbacksInOrder ==
    [][\A t \in ListenerThreads :
          /\ (loop[t].pc = "poll" /\ loop'[t].pc = "dispatch") =>
                loop'[t].todo = callbacks /\ loop'[t].done = <<>>
          /\ (loop[t].pc \in {"dispatch", "mark"} /\ loop'[t] # loop[t]) =>
                /\ loop'[t].done \o loop'[t].todo = loop[t].done \o loop[t].todo
                /\ Len(loop'[t].done) \in {Len(loop[t].done), Len(loop[t].done) + 1}
                /\ loop'[t].pc \in {"dispatch", "mark", "while"}
                /\ (loop'[t].pc = "while") <=> (loop'[t].todo = <<>>)
                /\ loop[t].pc = "mark" => Len(loop'[t].done) = Len(loop[t].done) + 1]_vars

\* the dispatch of an ack ended after the two callbacks of its copy were
\* invoked, while a callback registered during the dispatch waits for the
\* next ack
C21_Witness ==
    \E t \in ListenerThreads :
        /\ loop[t].pc = "while"
        /\ loop[t].ack # NoAck
        /\ Len(loop[t].done) = 2
        /\ Len(callbacks) = 3


\* C22: ready is false whenever the server does not run and when it starts
\* to run, becomes true only by a ping turn, and stays true while the server
\* runs.
C22_ReadyLifecycle ==
    [][/\ ~running' => ~ready'
       /\ (~running /\ running') => ~ready'
       /\ (~ready /\ ready') => IsRequest(request', "ping")
       /\ (ready /\ running /\ running') => ready']_vars



\* C23: connect() on a connected client probes nothing, spawns nothing and
\* changes nothing; a connect() whose handshake got a ready pong spawns
\* nothing, sets connected_to_existing and leaves server_process as it was;
\* every connect() spawns at most one process, and the process it spawns is
\* the one it stores in server_process.
C23_SpawnOnlyWhenNeeded ==
    [][client_call'.op = "connect" =>
         /\ client.connected =>
               /\ ~client_call'.probed
               /\ client_call'.spawned = 0
               /\ UNCHANGED <<client, processes, port_state>>
         /\ client_call'.handshake = "ready" =>
               /\ client_call'.spawned = 0
               /\ client'.connected_to_existing
               /\ client'.server_process = client.server_process
         /\ Len(processes') = Len(processes) + client_call'.spawned
         /\ client_call'.spawned \in {0, 1}
         /\ client_call'.spawned = 1 => client'.server_process = Len(processes')]_vars

\* a connect() adopted a ready server while the client held a process of an
\* earlier connect()
C23_Witness ==
    /\ client_call.op = "connect"
    /\ client_call.handshake = "ready"
    /\ client.connected_to_existing
    /\ client.server_process # 0
    /\ Len(processes) < MaxSpawns

\* C24: a disconnect() of a client whose connection was made by adopting a
\* running server terminates no process and kills none.
C24_AdoptedNeverTerminated ==
    [][(client_call'.op = "disconnect" /\ client.connected /\ connection.how = "adopted") =>
         /\ client_call'.terminated = 0
         /\ client_call'.killed = 0
         /\ processes' = processes]_vars

\* a non-persistent client that holds a live process of an earlier connect()
\* disconnected from a server it had adopted
C24_Witness ==
    /\ client_call.op = "disconnect"
    /\ client_call.result
    /\ client.connected_to_existing
    /\ ~client.persistent
    /\ client.server_process # 0
    /\ processes[client.server_process].alive

\* C25: a disconnect() of a non-persistent client connected to a server it
\* spawned itself terminates that process: terminate() is called on it and it
\* does not run afterwards.
C25_SpawnedIsTerminated ==
    [][(/\ client_call'.op = "disconnect"
        /\ client.connected
        /\ ~client.persistent
        /\ connection.server # 0
        /\ processes[connection.server].alive) =>
         /\ client_call'.terminated = connection.server
         /\ ~processes'[connection.server].alive]_vars

\* C26: a connected client holds an open data socket.
C26_ConnectedHasDataSocket == client.connected => client.data_socket

\* a turn of the wait loop: a status poll was made
IsPoll == wait'.poll_count = wait.poll_count + 1

\* the result wait_for_completion returns when it gives the server up
IsLost(r) == r.status = "cancelled" /\ r.message = "Lost connection to server"

\* C27: wait_for_completion returns the cancelled result "Lost connection to
\* server" exactly on the poll that makes max_consecutive_errors failed polls
\* in a row: an answered poll starts the count again, and while the call polls
\* fewer polls than the limit have failed in a row.
C27_LostAfterConsecutiveErrors ==
    [][IsPoll =>
         /\ (wait'.pc = "returned" /\ IsLost(wait'.result))
               <=> (wait'.reported = None /\ wait'.streak = wait.max_consecutive_errors)
         /\ wait'.reported # None => wait'.consecutive_errors = 0
         /\ wait'.consecutive_errors = wait'.streak
         /\ wait'.pc = "poll" => wait'.streak < wait.max_consecutive_errors]_vars

\* the call is still polling after a failed poll, an answered one and another
\* failed one, with a limit of two
C27_Witness ==
    /\ wait.pc = "poll"
    /\ wait.max_consecutive_errors = 2
    /\ wait.poll_count = 3
    /\ wait.streak = 1
    /\ wait.execution_id \in DOMAIN active_executions

\* the call returned the lost-connection result on its second failed poll
C27_WitnessLost ==
    /\ wait.pc = "returned"
    /\ IsLost(wait.result)
    /\ wait.max_consecutive_errors = 2

\* C28: a poll that reports the execution queued or running leaves the call
\* polling; the call returns complete, failed or cancelled (the lost result
\* apart) only on a poll that reported that status; an answered poll made when
\* the server's record of the execution is terminal returns that status.
C28_ReturnsReportedTerminal ==
    [][IsPoll =>
         /\ wait'.reported \in {"queued", "running"} => wait'.pc = "poll"
         /\ (/\ wait'.pc = "returned"
             /\ wait'.result.status \in TerminalStatuses
             /\ ~IsLost(wait'.result)) =>
               /\ wait'.reported = wait'.result.status
               /\ active_executions[wait.execution_id].status = wait'.result.status
         /\ (/\ wait'.reported # None
             /\ wait.execution_id \in DOMAIN active_executions
             /\ active_executions[wait.execution_id].status \in TerminalStatuses) =>
               /\ wait'.pc = "returned"
               /\ wait'.result.status = active_executions[wait.execution_id].status]_vars

\* the call returned cancelled because a poll reported the execution cancelled,
\* after a poll that reported it queued or running
C28_Witness ==
    /\ wait.pc = "returned"
    /\ wait.result.status = "cancelled"
    /\ wait.reported = "cancelled"
    /\ wait.poll_count > 1

\* the place of a published string among the entries enqueued
EnqueuedAt(text) == CHOOSE k \in 1..Len(enqueued) : JsonDumps(enqueued[k]) = text

\* C29: the strings published are the JSON texts of entries enqueued, each at
\* most once and in the order of their enqueuing, and the queue holds the
\* newest entries in that order, whatever the interleaving of
\* send_progress_update with the drain loop.
C29_PublishedInEnqueueOrder ==
    /\ \A i \in 1..Len(published) :
          \E k \in 1..Len(enqueued) : JsonDumps(enqueued[k]) = published[i]
    /\ \A i, j \in 1..Len(published) :
          i < j => EnqueuedAt(published[i]) < EnqueuedAt(published[j])
    /\ Len(progress_queue) <= Len(enqueued)
    /\ progress_queue = SubSeq(enqueued, Len(enqueued) - Len(progress_queue) + 1,
                               Len(enqueued))
    /\ \A i \in 1..Len(published), q \in 1..Len(progress_queue) :
          EnqueuedAt(published[i]) < EnqueuedAt(JsonDumps(progress_queue[q]))

\* two entries were published while a third, enqueued during the drain,
\* waits in the queue
C29_Witness ==
    /\ Len(published) = 2
    /\ Len(enqueued) = 3
    /\ Len(progress_queue) = 1
    /\ event_loop = "while"

\* C30: every call of process_messages() returns.
C30_ProcessMessagesReturns == (event_loop # "idle") ~> (event_loop = "idle")

\* C39: while the running flag of the ack listener is set, a listener loop
\* thread is alive: set up to bind, or inside its loop.
C39_RunningHasLoop ==
    listener_running => \E t \in ListenerThreads : LoopAlive(t)

\* C38: every pong the server sends has ready set.
C38_PongIsReady ==
    [][(Has(response', "type") /\ response'.type = "pong") => response'.ready = TRUE]_vars

\* the running server answered a ping with a pong
C38_Witness ==
    /\ Has(response, "type")
    /\ response.type = "pong"
    /\ IsRequest(request, "ping")
    /\ running

\* C36: when execute_task raises a broken-pool error on a record already
\* cancelled, the record is left as the cancellation wrote it: cancelled, no
\* error, end_time set; when it raises anything else, or on a record not
\* cancelled, the record ends failed with the text of the exception and
\* end_time set; when it returns, the record ends complete with the key count
\* and the keys of the result as results_summary.
C36_TaskOutcomeRecorded ==
    [][\A w \in Workers :
         (worker[w].pc = "task" /\ worker'[w].pc # "task") =>
            \E id \in {worker[w].item} :
               IF task_outcome'.kind = "raise"
               THEN IF task_outcome'.broken_pool /\ active_executions[id].status = "cancelled"
                    THEN /\ active_executions'[id] = active_executions[id]
                         /\ active_executions[id].error = None
                         /\ active_executions[id].end_time # NoTime
                    ELSE /\ active_executions'[id].status = "failed"
                         /\ active_executions'[id].error = task_outcome'.text
                         /\ active_executions'[id].end_time = clock
               ELSE /\ task_outcome'.kind = "return"
                    /\ active_executions'[id].status = "complete"
                    /\ active_executions'[id].end_time = clock
                    /\ active_executions'[id].results_summary =
                          IF task_outcome'.isdict
                          THEN <<Len(task_outcome'.wells), task_outcome'.wells>>
                          ELSE <<0, <<>> >>]_vars

\* execute_task raised a broken-pool error on a record that a request had
\* cancelled while it ran, and the record stayed cancelled
C36_Witness ==
    /\ task_outcome.kind = "raise"
    /\ task_outcome.broken_pool
    /\ \E id \in DOMAIN active_executions :
          /\ active_executions[id].status = "cancelled"
          /\ active_executions[id].start_time # NoTime
          /\ active_executions[id].error = None

\* C37: every accepted execution eventually has a terminal status.
C37_AcceptedEndsTerminal ==
    \A n \in 1..MaxExec :
        (Uuid(n) \in DOMAIN active_executions)
           ~> (/\ Uuid(n) \in DOMAIN active_executions
               /\ active_executions[Uuid(n)].status \in TerminalStatuses)

\* C31: every image the handler displayed is followed at once by one
\* send_ack for that image, whenever the server has an ack socket
C31_AckAfterEachDisplay ==
    \A i \in 1..Len(viewer.log) :
        (viewer.ack_socket /\ viewer.log[i].op = "display_image" /\ viewer.log[i].returned)
            => /\ i < Len(viewer.log)
               /\ viewer.log[i + 1].op = "send_ack"
               /\ viewer.log[i + 1].image_id = viewer.log[i].image_id

\* C40: right after clear() or reset_for_new_batch() the tracker's progress
\* is (0, 0) and its pending and processed sets are empty, and a
\* mark_processed for an image id that was registered only before the reset
\* changes neither total_sent nor total_processed
C40_ResetCountsNewBatch ==
    [][/\ call'.op \in {"clear", "reset_for_new_batch"}
            => /\ GetProgress(trackers'[call'.tracker]) = <<0, 0>>
               /\ trackers'[call'.tracker].pending = {}
               /\ trackers'[call'.tracker].processed = {}
       /\ (/\ call'.op = "mark_processed"
           /\ call'.image_id \in batch[call'.tracker].before
           /\ call'.image_id \notin batch[call'.tracker].now)
            => /\ trackers'[call'.tracker].total_sent = trackers[call'.tracker].total_sent
               /\ trackers'[call'.tracker].total_processed
                      = trackers[call'.tracker].total_processed]_vars

\* C32: remove_ipc_socket returns true exactly when it removed the socket
\* file of its port, removes no other file, returns false when called again
\* at once, and an is_port_in_use(port, IPC) right after it returns false
C32_RemovedIsFree ==
    [][/\ transport_call'.op = "remove_ipc_socket"
            => /\ transport_call'.outcome.kind = "return"
               /\ transport_call'.outcome.value = (ipc_files' # ipc_files)
               /\ transport_call'.outcome.value
                      = (GetIpcSocketPath(transport_call'.port, transport_call'.config)
                             \in ipc_files)
               /\ ipc_files \ ipc_files'
                      \subseteq {GetIpcSocketPath(transport_call'.port, transport_call'.config)}
               /\ ipc_files' \subseteq ipc_files
               /\ (/\ transport_call.op = "remove_ipc_socket"
                   /\ transport_call.port = transport_call'.port
                   /\ transport_call.config = transport_call'.config)
                    => transport_call'.outcome.value = FALSE
       /\ (/\ transport_call.op = "remove_ipc_socket"
           /\ transport_call'.op = "is_port_in_use"
           /\ transport_call'.port = transport_call.port
           /\ transport_call'.config = transport_call.config
           /\ transport_call'.transport_mode = "ipc")
            => transport_call'.outcome = Returned(FALSE)]_vars

\* remove_ipc_socket removed the socket file of its port and returned true
\* while the socket file of another port exists
C32_Witness ==
    /\ transport_call.op = "remove_ipc_socket"
    /\ transport_call.outcome = Returned(TRUE)
    /\ GetIpcSocketPath(transport_call.port, transport_call.config) \notin ipc_files
    /\ ipc_files # {}

\* the probe operations of transport.py
ProbeOps == {"is_port_in_use", "ping_control_port", "wait_for_server_ready"}

\* C34: every probe that has ended returned a boolean and did not raise
C34_ProbesReturnBooleans ==
    (transport_call.op \in ProbeOps /\ transport_call.outcome.kind # "running")
        => /\ transport_call.outcome.kind = "return"
           /\ transport_call.outcome.value \in BOOLEAN

\* the offset of the config a call was given
OffsetOf(config) == IF Has(config, "py") THEN 1000 ELSE config.control_port_offset

\* C35: every server and client object has control_port = port + the offset
\* of its config, and every derivation of a control endpoint for a data port
\* yields port + offset and the tcp url of that port
C35_ControlPortIsPortPlusOffset ==
    /\ \A o \in 1..Len(endpoints) :
          endpoints[o].control_port
              = endpoints[o].port + endpoints[o].config.control_port_offset
    /\ Has(transport_call, "control_port")
          => transport_call.control_port
                 = transport_call.port + OffsetOf(transport_call.config)
    /\ (Has(transport_call, "outcome") /\ Has(transport_call, "port"))
          => transport_call.outcome
                 = Returned("tcp://localhost:"
                              \o ToString(transport_call.port
                                            + OffsetOf(transport_call.config)))

\* a client built with an offset other than the default made its handshake
\* beside another object
C35_Witness ==
    /\ Len(endpoints) = MaxEndpoints
    /\ transport_call.op = "_try_connect_to_existing"
    /\ transport_call.config.control_port_offset # 1000
    /\ transport_call.control_port = transport_call.port + 1

\* C33: converting a message to its dict and back with from_dict of its
\* class gives a message equal to the first
C33_RoundTrip ==
    codec.op = "round_trip" => codec.back = Returned(codec.message)
====
